---------------------------- MODULE Spec2Model ----------------------------
(***************************************************************************)
(* Model of the textbook extraction pipeline: chapter / section boundary   *)
(* scanning (chapter_scanner.py, section_scanner.py), the chapter registry *)
(* point lookup (chapter_detector.py, file_property_editor.py), the        *)
(* special-page classifier and the question / answer block segmenter       *)
(* (qa_handler.py).                                                        *)
(*                                                                         *)
(* Text representation.  A page text is the sequence of its lines (the     *)
(* text split on "\n"); a line is the sequence of its whitespace-separated *)
(* tokens; the empty string is the empty sequence of lines.  A token is a  *)
(* record [w, n, p]: a word w, or (w = "") a dotted number n (<<1, 2>> is  *)
(* "1.2", <<7>> is "7") followed by the punctuation p ("", "." or ":").    *)
(* Regular expressions are evaluated over tokens.                          *)
(***************************************************************************)
EXTENDS Integers, Sequences, FiniteSets, TLC

(***************************************************************************)
(* Bounds of the model.                                                    *)
(***************************************************************************)
MaxLines == 3
MaxPageNum == 6
MaxRegistered == 3
MaxRegistryPage == 4
MaxHeaderLines == 2
MaxStreamPages == 3
MaxBlocks == 2
MaxFileLines == 3

(***************************************************************************)
(* Program constants.                                                      *)
(***************************************************************************)
min_chapter == 1
max_chapter == 50
min_page_gap == 5
ChapterWindow == 15
SectionWindow == 15
HeaderWindow == 20
max_depth == 2
min_title_length == 3

None == <<>>
Some(x) == <<x>>

W(s) == [w |-> s, n |-> <<>>, p |-> ""]
Num(ns, punct) == [w |-> "", n |-> ns, p |-> punct]
NL == [w |-> "\n", n |-> <<>>, p |-> ""]

IsWord(tok) == tok.w # "" /\ tok.w # "\n"
IsNum(tok) == tok.w = ""

\* str.lower() on the words of the vocabulary (re.IGNORECASE)
Lower(s) ==
   CASE s = "Chapter" -> "chapter"
     [] s = "CHAPTER" -> "chapter"
     [] s = "Page" -> "page"
     [] s = "Practice" -> "practice"
     [] s = "PRACTICE" -> "practice"
     [] s = "Exercises" -> "exercises"
     [] s = "Exercise" -> "exercise"
     [] s = "Problems" -> "problems"
     [] s = "Problem" -> "problem"
     [] s = "Solutions" -> "solutions"
     [] s = "Solution" -> "solution"
     [] s = "Answer" -> "answer"
     [] s = "ANSWER" -> "answer"
     [] s = "Key" -> "key"
     [] s = "Summary" -> "summary"
     [] s = "Review" -> "review"
     [] s = "Questions" -> "questions"
     [] s = "Question" -> "question"
     [] OTHER -> s

\* text.split('\n')[:k]
FirstLines(text, k) == SubSeq(text, 1, IF Len(text) < k THEN Len(text) ELSE k)

RECURSIVE JoinLines(_)
\* '\n'.join(lines), as the flat sequence of tokens with NL between lines
JoinLines(lines) ==
   IF lines = <<>> THEN <<>>
   ELSE IF Len(lines) = 1 THEN lines[1]
   ELSE lines[1] \o <<NL>> \o JoinLines(Tail(lines))

(***************************************************************************)
(* chapter_scanner.py: SPECIAL_PAGE_PATTERNS.  A pattern is the sequence   *)
(* of its atoms, joined by \s+; an atom is the set of lower-cased words it *)
(* matches, or {"\\d+"} for a run of digits; eol says the pattern ends     *)
(* with \s*$.                                                              *)
(***************************************************************************)
Digits == {"\\d+"}
Pat(atoms, eol) == [atoms |-> atoms, eol |-> eol]

SPECIAL_PAGE_PATTERNS ==
   << [page_type |-> "practice", pattern_list |-> <<
          Pat(<<{"chapter"}, Digits, {"practice"}, {"exercise", "exercises"}>>, FALSE),
          Pat(<<{"practice"}, {"problem", "problems"}>>, FALSE),
          Pat(<<{"chapter"}, {"exercise", "exercises"}>>, FALSE),
          Pat(<<{"exercise", "exercises"}>>, TRUE),
          Pat(<<{"problem", "problems"}>>, TRUE) >>],
      [page_type |-> "solutions", pattern_list |-> <<
          Pat(<<{"chapter"}, Digits, {"exercise"}, {"solution", "solutions"}>>, FALSE),
          Pat(<<{"solution", "solutions"}, {"to"}, {"exercise", "exercises"}>>, FALSE),
          Pat(<<{"answer"}, {"key"}>>, FALSE) >>],
      [page_type |-> "summary", pattern_list |-> <<
          Pat(<<{"chapter"}, Digits, {"summary"}>>, FALSE),
          Pat(<<{"chapter"}, {"review"}>>, FALSE) >>],
      [page_type |-> "review", pattern_list |-> <<
          Pat(<<{"chapter"}, Digits, {"review"}>>, FALSE),
          Pat(<<{"review"}, {"question", "questions"}>>, FALSE) >>] >>

\* one atom against one token
AtomMatches(atom, tok) ==
   IF atom = Digits THEN IsNum(tok) /\ Len(tok.n) = 1 /\ tok.p = ""
   ELSE IsWord(tok) /\ Lower(tok.w) \in atom

\* index of the first item after position i that is not a line break, or 0
NextToken(flat, i) ==
   LET later == {j \in (i + 1)..Len(flat) : flat[j] # NL}
   IN  IF later = {} THEN 0
       ELSE CHOOSE j \in later : \A k \in later : j <= k

\* where the match of \s*$ after the token at position e ends, or 0 when
\* the token is not the last of its line
EolEnd(flat, e) ==
   IF e = Len(flat) THEN e
   ELSE IF flat[e + 1] # NL THEN 0
   ELSE LET nxt == NextToken(flat, e)
        IN  IF nxt = 0 THEN Len(flat) ELSE nxt - 2

RECURSIVE MatchFrom(_, _, _, _)
\* position where the match of atoms k.. ends when atom k sits at position i,
\* or 0 when there is no match
MatchFrom(pat, k, flat, i) ==
   IF ~AtomMatches(pat.atoms[k], flat[i]) THEN 0
   ELSE IF k = Len(pat.atoms)
        THEN (IF pat.eol THEN EolEnd(flat, i) ELSE i)
   ELSE LET j == NextToken(flat, i)
        IN  IF j = 0 THEN 0 ELSE MatchFrom(pat, k + 1, flat, j)

\* re.search(pattern, header, re.IGNORECASE | re.MULTILINE): the leftmost
\* match's text (group 0), or None
Search(pat, flat) ==
   LET starts == {i \in 1..Len(flat) : flat[i] # NL /\ MatchFrom(pat, 1, flat, i) # 0}
   IN  IF starts = {} THEN None
       ELSE LET i == CHOOSE s \in starts : \A t \in starts : s <= t
            IN  Some(SubSeq(flat, i, MatchFrom(pat, 1, flat, i)))

RECURSIVE FirstPattern(_, _, _)
\* for pattern in pattern_list: the first pattern that matches
FirstPattern(pattern_list, k, flat) ==
   IF k > Len(pattern_list) THEN None
   ELSE IF Search(pattern_list[k], flat) # None THEN Search(pattern_list[k], flat)
   ELSE FirstPattern(pattern_list, k + 1, flat)

RECURSIVE LastCategory(_, _, _)
\* faulty variant: the loop does not return at the first matching category
LastCategory(patterns, c, flat) ==
   IF c > Len(patterns) THEN None
   ELSE LET m == FirstPattern(patterns[c].pattern_list, 1, flat)
            later == LastCategory(patterns, c + 1, flat)
        IN  IF later # None THEN later
            ELSE IF m # None
                 THEN Some([page_type |-> patterns[c].page_type, matched_text |-> m[1]])
            ELSE None

RECURSIVE FirstCategory(_, _, _)
\* for page_type, pattern_list in patterns.items(): in the table's order
FirstCategory(patterns, c, flat) ==
   IF c > Len(patterns) THEN None
   ELSE LET m == FirstPattern(patterns[c].pattern_list, 1, flat)
        IN  IF m # None
            THEN Some([page_type |-> patterns[c].page_type, matched_text |-> m[1]])
            ELSE FirstCategory(patterns, c + 1, flat)

\* detect_special_page_type(text, patterns)
detect_special_page_type(text, patterns) ==
   IF text = <<>> THEN None
   ELSE FirstCategory(patterns, 1, JoinLines(FirstLines(text, HeaderWindow)))

(***************************************************************************)
(* chapter_scanner.py: detect_chapter_at_page_start                        *)
(***************************************************************************)
\* re.match(r'^Chapter\s+(\d+)(?:[.:]\s+.+)?$', line, re.IGNORECASE)
ChapterLineMatches(line) ==
   /\ Len(line) >= 2
   /\ IsWord(line[1]) /\ Lower(line[1].w) = "chapter"
   /\ IsNum(line[2]) /\ Len(line[2].n) = 1
   /\ \/ line[2].p = "" /\ Len(line) = 2
      \/ line[2].p \in {".", ":"} /\ Len(line) >= 3

\* re.match(r'^\d+\.\d+', potential_title)
LooksLikeSectionNumber(line) ==
   line # <<>> /\ IsNum(line[1]) /\ Len(line[1].n) >= 2

ChapterTitle(lines, i) ==
   IF i + 1 <= Len(lines) /\ lines[i + 1] # <<>> /\ ~LooksLikeSectionNumber(lines[i + 1])
   THEN Some(lines[i + 1])
   ELSE None

detect_chapter_at_page_start(text) ==
   IF text = <<>> THEN None
   ELSE LET lines == FirstLines(text, ChapterWindow)
            hits == {i \in 1..Len(lines) : ChapterLineMatches(lines[i])}
        IN  IF hits = {} THEN None
            ELSE LET i == CHOOSE h \in hits : \A g \in hits : h <= g
                 IN  Some([chapter_num |-> lines[i][2].n[1], title |-> ChapterTitle(lines, i)])

(***************************************************************************)
(* section_scanner.py: detect_section_at_page_start                        *)
(***************************************************************************)
\* number of components the pattern built for max_depth accepts in group 1
SectionComponents(depth_limit) ==
   IF depth_limit = 1 THEN {2}
   ELSE IF depth_limit = 2 THEN {2, 3}
   ELSE IF depth_limit <= 0 THEN {1}
   ELSE {depth_limit + 1}

\* re.match(pattern, line): group 1 is the first token, group 2 the rest
SectionLineMatches(line, depth_limit) ==
   /\ line # <<>>
   /\ IsNum(line[1]) /\ line[1].p = ""
   /\ Len(line[1].n) \in SectionComponents(depth_limit)

DigitCount(k) == IF k < 10 THEN 1 ELSE IF k < 100 THEN 2 ELSE 3

RECURSIVE NumLen(_)
NumLen(ns) ==
   IF ns = <<>> THEN 0
   ELSE DigitCount(ns[1]) + (IF Len(ns) > 1 THEN 1 ELSE 0) + NumLen(Tail(ns))

TokenLen(tok) == IF IsNum(tok) THEN NumLen(tok.n) + Len(tok.p) ELSE Len(tok.w)

RECURSIVE CharLen(_)
\* len(line): the tokens and the single spaces between them
CharLen(line) ==
   IF line = <<>> THEN 0
   ELSE TokenLen(line[1]) + (IF Len(line) > 1 THEN 1 ELSE 0) + CharLen(Tail(line))

\* re.match(r'^\d+\.', potential_title)
StartsWithNumberDot(line) ==
   line # <<>> /\ IsNum(line[1]) /\ (Len(line[1].n) >= 2 \/ line[1].p = ".")

\* re.match(r'^(Chapter|Page|\d+)$', title, re.IGNORECASE)
IsBareKeyword(title) ==
   /\ Len(title) = 1
   /\ \/ IsWord(title[1]) /\ Lower(title[1].w) \in {"chapter", "page"}
      \/ IsNum(title[1]) /\ Len(title[1].n) = 1 /\ title[1].p = ""

\* str.strip('.') on one token of the vocabulary
StripDotsToken(tok) ==
   IF IsNum(tok) THEN [tok EXCEPT !.p = IF tok.p = "." THEN "" ELSE tok.p]
   ELSE [tok EXCEPT !.w = CASE tok.w = "Intro." -> "Intro" [] OTHER -> tok.w]

\* title.strip('.')
StripDots(title) ==
   [k \in 1..Len(title) |-> IF k = Len(title) THEN StripDotsToken(title[k]) ELSE title[k]]

SectionTitle(lines, i, title_min) ==
   IF Len(lines[i]) > 1 THEN Some(Tail(lines[i]))
   ELSE IF /\ i + 1 <= Len(lines)
           /\ CharLen(lines[i + 1]) >= title_min
           /\ ~StartsWithNumberDot(lines[i + 1])
        THEN Some(lines[i + 1])
   ELSE None

RECURSIVE DetectSectionFrom(_, _, _, _)
\* the loop over the leading lines, from line i on
DetectSectionFrom(lines, i, depth_limit, title_min) ==
   IF i > Len(lines) THEN None
   ELSE IF ~SectionLineMatches(lines[i], depth_limit)
        THEN DetectSectionFrom(lines, i + 1, depth_limit, title_min)
   ELSE LET title == SectionTitle(lines, i, title_min)
        IN  IF title # None /\ IsBareKeyword(title[1])
            THEN DetectSectionFrom(lines, i + 1, depth_limit, title_min)
            ELSE Some([section_num |-> lines[i][1].n,
                       title |-> IF title = None THEN None ELSE Some(StripDots(title[1])),
                       depth |-> Len(lines[i][1].n) - 1])

detect_section_at_page_start(text, depth_limit, title_min) ==
   IF text = <<>> THEN None
   ELSE DetectSectionFrom(FirstLines(text, SectionWindow), 1, depth_limit, title_min)

(***************************************************************************)
(* The PageRecords file: one line per record.  A line is blank, malformed  *)
(* JSON, or a record; pdf_page_number 0 stands for a missing, null or zero *)
(* page number and text <<>> for a missing or empty text.                  *)
(***************************************************************************)
BlankLine == [kind |-> "blank", pdf_page_number |-> 0, text |-> <<>>]
MalformedLine == [kind |-> "malformed", pdf_page_number |-> 0, text |-> <<>>]
NoLine == [kind |-> "none", pdf_page_number |-> 0, text |-> <<>>]
Record(p, t) == [kind |-> "record", pdf_page_number |-> p, text |-> t]

Words(ws) == [k \in 1..Len(ws) |-> W(ws[k])]
ChapterHeading(k) == <<W("Chapter"), Num(<<k>>, "")>>

\* page texts of the chapter scan
ChapterTexts ==
   { << ChapterHeading(1) >>,
     << ChapterHeading(2), Words(<<"Data", "Structures">>) >>,
     << ChapterHeading(1), Words(<<"Practice", "Exercises">>) >>,
     << <<W("CHAPTER"), Num(<<51>>, "")>> >>,
     << <<W("Chapter"), Num(<<0>>, ":"), W("Preface")>> >>,
     << Words(<<"Practice", "Exercises">>) >>,
     << Words(<<"foo">>) >> }

\* page texts of the section scan
SectionTexts ==
   { << <<Num(<<1, 1>>, ""), W("Intro.")>> >>,
     << <<Num(<<1, 1>>, ""), W("Other")>> >>,
     << <<Num(<<1, 2>>, "")>>, Words(<<"Data", "Structures">>) >>,
     << <<Num(<<2, 1, 1>>, ""), W("Deep")>> >>,
     << <<Num(<<1, 2, 3, 4>>, ""), W("Deeper")>> >> }

\* the lines a PageRecords file may hold
FileLines(texts) ==
   {BlankLine, MalformedLine}
      \cup {Record(p, t) : p \in 1..MaxPageNum, t \in texts}
      \cup {Record(0, << Words(<<"foo">>) >>), Record(1, <<>>)}

VARIABLES
   kind,             \* which function runs: "chapters", "sections", "registry", ...
   pc,               \* "scan" while the file is read, "done" after the return
   line_num,         \* lines of the file read so far
   line,             \* the line read last
   boundaries,       \* scan_pagerecords_for_chapters: boundaries
   seen_chapters,
   last_page,
   current_chapter,  \* None, or Some(chapter_number) of the current boundary
   sections,         \* scan_pagerecords_for_sections: sections
   seen_sections,
   last_page_num,
   first_detected,   \* history: <<numeral, page>> of every numeral's first detection
   registry,         \* ChapterRegistry.boundaries
   finalized,        \* history: finalize() ran after the last register_chapter()
   ret,              \* the last call's arguments and return value
   questions,        \* extract_questions: questions
   answers,          \* extract_answers: answers
   carry,            \* None, or Some(index) of the open item in its list
   page,             \* the page of the stream processed last
   chunk_num,        \* pages of the stream processed so far
   lookup,           \* the section lookup, indexed by page number
   pages_file,       \* parse_document_pages: the lines of the PageRecords file
   q_blocks,         \* match_questions_and_answers: the question blocks
   a_blocks,         \* match_questions_and_answers: the answer blocks
   questions_out,
   answers_out,
   printed,          \* the counts printed by match_questions_and_answers
   raised,           \* an exception ended the call
   previous,         \* history: None, or Some(outcome) of the previous run
   ran,              \* history: the functions that have run on pages_file
   log               \* ConversionLogger: the lines of the file at log_path

scanVars == <<boundaries, seen_chapters, last_page, current_chapter>>
sectionVars == <<sections, seen_sections, last_page_num>>
registryVars == <<registry, finalized, log>>
vars == <<kind, pc, line_num, line, boundaries, seen_chapters, last_page,
          current_chapter, sections, seen_sections, last_page_num,
          first_detected, registry, finalized, ret,
          questions, answers, carry, page, chunk_num, lookup,
          pages_file, q_blocks, a_blocks, questions_out, answers_out, printed,
          raised, previous, ran, log>>
matchVars == <<pages_file, q_blocks, a_blocks, questions_out, answers_out, printed,
               raised, previous, ran>>
segVars == <<questions, answers, carry, page, chunk_num, lookup>>

NoRet == [op |-> "none", arg |-> 0, val |-> None]

(***************************************************************************)
(* chapter_scanner.py: scan_pagerecords_for_chapters                       *)
(***************************************************************************)
detect_special_pages == TRUE

\* ChapterBoundary(chapter_num, page_num, title)
ChapterBoundary(chapter_num, page_num, title) ==
   [chapter_number |-> chapter_num, page_number |-> page_num,
    chapter_title |-> title, special_pages |-> <<>>]

\* ChapterBoundary.add_special_page
add_special_page(b, page_type, page_num, title) ==
   [b EXCEPT !.special_pages =
      Append(@, [page_type |-> page_type, page_number |-> page_num,
                 chapter_number |-> b.chapter_number, title |-> Some(title)])]

\* not (min_chapter <= chapter_num <= max_chapter)
OutOfRange(chapter_num) == ~(min_chapter <= chapter_num /\ chapter_num <= max_chapter)

\* faulty variant: the duplicate test is lost
AlreadySeenNever(chapter_num, seen) == FALSE

\* chapter_num in seen_chapters
AlreadySeen(chapter_num, seen) == chapter_num \in seen

\* faulty variant: the gap test is off by one
TooCloseOffByOne(page_num, last) == last > 0 /\ (page_num - last) < min_page_gap - 1

\* last_page > 0 and (page_num - last_page) < min_page_gap
TooClose(page_num, last) == last > 0 /\ (page_num - last) < min_page_gap

\* the three validation tests that end the iteration with continue
Rejected(st, chapter_num, page_num) ==
   \/ OutOfRange(chapter_num)
   \/ AlreadySeen(chapter_num, st.seen_chapters)
   \/ TooClose(page_num, st.last_page)

\* faulty variant: last_page is assigned before the validation
RejectChapterMovesLastPage(st, chapter_num, page_num) == [st EXCEPT !.last_page = page_num]

\* continue: the candidate is dropped
RejectChapter(st, chapter_num, page_num) == st

\* "Valid chapter found"
AcceptChapter(st, chapter_num, page_num, title) ==
   [boundaries |-> Append(st.boundaries, ChapterBoundary(chapter_num, page_num, title)),
    seen_chapters |-> st.seen_chapters \cup {chapter_num},
    last_page |-> page_num,
    current_chapter |-> Some(chapter_num)]

\* current_chapter.add_special_page(page_type, page_num, matched_text)
AttachSpecialPage(st, page_num, hit) ==
   [st EXCEPT !.boundaries =
      [k \in 1..Len(@) |->
         IF Some(@[k].chapter_number) = st.current_chapter
         THEN add_special_page(@[k], hit.page_type, page_num, hit.matched_text)
         ELSE @[k]]]

\* the elif branch: "Detect special pages (only if we're in a chapter)"
ClassifyPage(st, page_num, text) ==
   IF detect_special_pages /\ st.current_chapter # None
   THEN LET special_result == detect_special_page_type(text, SPECIAL_PAGE_PATTERNS)
        IN  IF special_result # None
            THEN AttachSpecialPage(st, page_num, special_result[1])
            ELSE st
   ELSE st

\* one iteration of the loop over the file's lines
ScanChapterLine(st, ln) ==
   IF ln.kind # "record" THEN st
   ELSE IF ln.pdf_page_number = 0 \/ ln.text = <<>> THEN st
   ELSE LET page_num == ln.pdf_page_number
            chapter_result == detect_chapter_at_page_start(ln.text)
        IN  IF chapter_result # None
            THEN (IF Rejected(st, chapter_result[1].chapter_num, page_num)
                  THEN RejectChapter(st, chapter_result[1].chapter_num, page_num)
                  ELSE AcceptChapter(st, chapter_result[1].chapter_num, page_num,
                                     chapter_result[1].title))
            ELSE ClassifyPage(st, page_num, ln.text)

RECURSIVE InsertSorted(_, _)
\* insert the pair x = <<key, element>> after the pairs whose key is <= x's
InsertSorted(sorted, x) ==
   IF sorted = <<>> THEN <<x>>
   ELSE IF sorted[Len(sorted)][1] <= x[1] THEN Append(sorted, x)
   ELSE Append(InsertSorted(SubSeq(sorted, 1, Len(sorted) - 1), x), sorted[Len(sorted)])

RECURSIVE SortPairs(_)
\* list.sort(key=...) on <<key, element>> pairs: stable
SortPairs(pairs) ==
   IF pairs = <<>> THEN <<>>
   ELSE InsertSorted(SortPairs(SubSeq(pairs, 1, Len(pairs) - 1)), pairs[Len(pairs)])

\* boundaries.sort(key=lambda b: b.page_number)
SortBoundaries(list) ==
   LET sorted == SortPairs([k \in 1..Len(list) |-> <<list[k].page_number, list[k]>>])
   IN  [k \in 1..Len(list) |-> sorted[k][2]]

\* sections.sort(key=lambda s: s.page_start)
SortSections(list) ==
   LET sorted == SortPairs([k \in 1..Len(list) |-> <<list[k].page_start, list[k]>>])
   IN  [k \in 1..Len(list) |-> sorted[k][2]]

\* history: the first page on which each numeral was detected
NoteDetection(seen_first, numeral, page_num) ==
   IF \E d \in seen_first : d[1] = numeral THEN seen_first
   ELSE seen_first \cup {<<numeral, page_num>>}

ChapterState ==
   [boundaries |-> boundaries, seen_chapters |-> seen_chapters,
    last_page |-> last_page, current_chapter |-> current_chapter]

IsPage(ln) == ln.kind = "record" /\ ln.pdf_page_number # 0 /\ ln.text # <<>>

ChapterReadLine ==
   /\ kind = "chapters" /\ pc = "scan" /\ line_num < MaxLines
   /\ \E ln \in FileLines(ChapterTexts) :
         LET st == ScanChapterLine(ChapterState, ln)
             det == IF IsPage(ln) THEN detect_chapter_at_page_start(ln.text) ELSE None
         IN  /\ line' = ln
             /\ line_num' = line_num + 1
             /\ boundaries' = st.boundaries
             /\ seen_chapters' = st.seen_chapters
             /\ last_page' = st.last_page
             /\ current_chapter' = st.current_chapter
             /\ first_detected' =
                   IF det = None THEN first_detected
                   ELSE NoteDetection(first_detected, det[1].chapter_num, ln.pdf_page_number)
   /\ UNCHANGED <<kind, pc, sectionVars, registryVars, ret, segVars, matchVars>>

\* end of file: the sort, and the return (the locals go out of scope)
ChapterFinish ==
   /\ kind = "chapters" /\ pc = "scan"
   /\ boundaries' = SortBoundaries(boundaries)
   /\ pc' = "done"
   /\ line' = NoLine /\ line_num' = 0
   /\ seen_chapters' = {} /\ last_page' = 0 /\ current_chapter' = None
   /\ UNCHANGED <<kind, sectionVars, first_detected, registryVars, ret, segVars, matchVars>>

(***************************************************************************)
(* section_scanner.py: scan_pagerecords_for_sections                       *)
(***************************************************************************)
Max(a, b) == IF a >= b THEN a ELSE b

SectionBoundary(section_num, page_num, title, depth) ==
   [section_number |-> section_num, page_start |-> page_num, page_end |-> None,
    section_title |-> title, chapter_number |-> section_num[1], depth |-> depth]

SectionState ==
   [sections |-> sections, seen_sections |-> seen_sections,
    last_page_num |-> last_page_num]

\* section_num in seen_sections: "Skip duplicates entirely"
SectionSeen(section_num, seen) == section_num \in seen

ScanSectionLine(st, ln) ==
   IF ln.kind # "record" THEN st
   ELSE IF ln.pdf_page_number = 0 \/ ln.text = <<>> THEN st
   ELSE LET page_num == ln.pdf_page_number
            result == detect_section_at_page_start(ln.text, max_depth, min_title_length)
            last == Max(st.last_page_num, page_num)
        IN  IF result # None /\ ~SectionSeen(result[1].section_num, st.seen_sections)
            THEN [sections |-> Append(st.sections,
                                 SectionBoundary(result[1].section_num, page_num,
                                                 result[1].title, result[1].depth)),
                  seen_sections |-> st.seen_sections \cup {result[1].section_num},
                  last_page_num |-> last]
            ELSE [st EXCEPT !.last_page_num = last]

\* "Compute page_end for each section"
ComputePageEnds(list, last) ==
   [i \in 1..Len(list) |->
      [list[i] EXCEPT !.page_end =
         IF i + 1 <= Len(list) THEN Some(list[i + 1].page_start - 1) ELSE Some(last)]]

SectionReadLine ==
   /\ kind = "sections" /\ pc = "scan" /\ line_num < MaxLines
   /\ \E ln \in FileLines(SectionTexts) :
         LET st == ScanSectionLine(SectionState, ln)
             det == IF IsPage(ln)
                    THEN detect_section_at_page_start(ln.text, max_depth, min_title_length)
                    ELSE None
         IN  /\ line' = ln
             /\ line_num' = line_num + 1
             /\ sections' = st.sections
             /\ seen_sections' = st.seen_sections
             /\ last_page_num' = st.last_page_num
             /\ first_detected' =
                   IF det = None THEN first_detected
                   ELSE NoteDetection(first_detected, det[1].section_num, ln.pdf_page_number)
   /\ UNCHANGED <<kind, pc, scanVars, registryVars, ret, segVars, matchVars>>

SectionFinish ==
   /\ kind = "sections" /\ pc = "scan"
   /\ sections' = ComputePageEnds(SortSections(sections), last_page_num)
   /\ pc' = "done"
   /\ line' = NoLine /\ line_num' = 0
   /\ seen_sections' = {}
   /\ UNCHANGED <<kind, last_page_num, scanVars, first_detected, registryVars, ret, segVars, matchVars>>

(***************************************************************************)
(* chapter_detector.py: ChapterRegistry                                    *)
(***************************************************************************)
RECURSIVE BisectLoop(_, _, _, _)
\* bisect.bisect_right(a, x): the loop, on the 0-based lo and hi
BisectLoop(a, x, lo, hi) ==
   IF lo < hi
   THEN LET mid == (lo + hi) \div 2
        IN  IF x < a[mid + 1] THEN BisectLoop(a, x, lo, mid)
            ELSE BisectLoop(a, x, mid + 1, hi)
   ELSE lo

RECURSIVE BisectLeftLoop(_, _, _, _)
\* the loop of bisect.bisect_left
BisectLeftLoop(a, x, lo, hi) ==
   IF lo < hi
   THEN LET mid == (lo + hi) \div 2
        IN  IF a[mid + 1] < x THEN BisectLeftLoop(a, x, mid + 1, hi)
            ELSE BisectLeftLoop(a, x, lo, mid)
   ELSE lo

\* faulty variant: bisect_left in place of bisect_right
bisect_left(a, x) == BisectLeftLoop(a, x, 0, Len(a))

bisect_right(a, x) == BisectLoop(a, x, 0, Len(a))

\* f'{n:02d}': the decimal digits, zero-padded to two
TwoDigits(k) ==
   IF k < 10 THEN <<0, k>>
   ELSE IF k < 100 THEN <<k \div 10, k % 10>>
   ELSE <<k \div 100, (k \div 10) % 10, k % 10>>

ChapterId(k) == [prefix |-> "ch", digits |-> TwoDigits(k)]

\* ChapterRegistry.register_chapter
register_chapter(list, chapter_num, page_num, title) ==
   Append(list, [chapter_number |-> chapter_num, page_number |-> page_num,
                 chapter_title |-> title])

\* ChapterRegistry.finalize
finalize(list) == SortBoundaries(list)

\* ChapterRegistry.get_chapter_id
get_chapter_id(list, page_num) ==
   IF list = <<>> THEN ChapterId(0)
   ELSE LET page_numbers == [k \in 1..Len(list) |-> list[k].page_number]
            idx == bisect_right(page_numbers, page_num) - 1
        IN  IF idx < 0 THEN ChapterId(0)
            ELSE ChapterId(list[idx + 1].chapter_number)

\* ChapterRegistry.get_chapter_info
get_chapter_info(list, page_num) ==
   IF list = <<>> THEN None
   ELSE LET page_numbers == [k \in 1..Len(list) |-> list[k].page_number]
            idx == bisect_right(page_numbers, page_num) - 1
        IN  IF idx < 0 THEN None
            ELSE Some(list[idx + 1])

\* chapter numbers passed to register_chapter
RegistryNums == {3, 12}

RegisterChapter ==
   /\ kind = "registry" /\ Len(registry) < MaxRegistered
   /\ \E chapter_num \in RegistryNums, page_num \in 1..MaxRegistryPage :
         registry' = register_chapter(registry, chapter_num, page_num, None)
   /\ finalized' = FALSE
   /\ ret' = NoRet
   /\ UNCHANGED <<kind, pc, line_num, line, scanVars, sectionVars, first_detected, segVars,
                  matchVars, log>>

Finalize ==
   /\ kind = "registry"
   /\ registry' = finalize(registry)
   /\ finalized' = TRUE
   /\ ret' = NoRet
   /\ UNCHANGED <<kind, pc, line_num, line, scanVars, sectionVars, first_detected, segVars,
                  matchVars, log>>

GetChapterId ==
   /\ kind = "registry"
   /\ \E page_num \in 0..(MaxRegistryPage + 1) :
         ret' = [op |-> "get_chapter_id", arg |-> page_num,
                 val |-> get_chapter_id(registry, page_num)]
   /\ UNCHANGED <<kind, pc, line_num, line, scanVars, sectionVars, first_detected,
                  registryVars, segVars, matchVars>>

GetChapterInfo ==
   /\ kind = "registry"
   /\ \E page_num \in 0..(MaxRegistryPage + 1) :
         ret' = [op |-> "get_chapter_info", arg |-> page_num,
                 val |-> get_chapter_info(registry, page_num)]
   /\ UNCHANGED <<kind, pc, line_num, line, scanVars, sectionVars, first_detected,
                  registryVars, segVars, matchVars>>

(***************************************************************************)
(* file_property_editor.py: autofill_chapters                              *)
(***************************************************************************)
\* get_chapter_for_page, over the boundaries the chapter scan returned
get_chapter_for_page(list, page_num) ==
   IF list = <<>> THEN None
   ELSE LET boundary_pages == [k \in 1..Len(list) |-> list[k].page_number]
            idx == bisect_right(boundary_pages, page_num) - 1
        IN  IF idx < 0 THEN None
            ELSE Some(list[idx + 1])

\* one record of the loop "for record in records" with a pdf_page
AutofillRecord ==
   /\ kind = "chapters" /\ pc = "done"
   /\ \E page_num \in 1..(MaxPageNum + 1) :
         ret' = [op |-> "get_chapter_for_page", arg |-> page_num,
                 val |-> get_chapter_for_page(boundaries, page_num)]
   /\ UNCHANGED <<kind, pc, line_num, line, scanVars, sectionVars, first_detected,
                  registryVars, segVars, matchVars>>

(***************************************************************************)
(* qa_handler.py: the block segmenter of extract_questions and             *)
(* extract_answers.  segment is "questions" or "answers"; texts are flat   *)
(* token sequences with NL between lines.                                  *)
(***************************************************************************)
RECURSIVE LStrip(_)
LStrip(flat) ==
   IF flat # <<>> /\ flat[1] = NL THEN LStrip(Tail(flat)) ELSE flat

RECURSIVE RStrip(_)
RStrip(flat) ==
   IF flat # <<>> /\ flat[Len(flat)] = NL
   THEN RStrip(SubSeq(flat, 1, Len(flat) - 1))
   ELSE flat

\* str.strip()
Strip(flat) == RStrip(LStrip(flat))

\* the literal "The correct answer is"
AnswerPhrase == <<W("The"), W("correct"), W("answer"), W("is")>>
PhraseAt(flat, t) ==
   t # 0 /\ t + 3 <= Len(flat) /\ SubSeq(flat, t, t + 3) = AnswerPhrase

\* \d+\. at position j, the first token of its line (^\s*)
NumberDotAt(flat, j) ==
   /\ j <= Len(flat)
   /\ IsNum(flat[j]) /\ Len(flat[j].n) = 1 /\ flat[j].p = "."
   /\ (j = 1 \/ flat[j - 1] = NL)

\* ^\s*\d+\.\s matches with its number at position j
QuestionBoundaryAt(flat, j) == NumberDotAt(flat, j) /\ j < Len(flat)

\* ^\s*\d+\.\s+The correct answer is matches with its number at position j
AnswerBoundaryAt(flat, j) ==
   NumberDotAt(flat, j) /\ PhraseAt(flat, NextToken(flat, j))

BoundaryAt(segment, flat, j) ==
   IF segment = "questions" THEN QuestionBoundaryAt(flat, j)
   ELSE AnswerBoundaryAt(flat, j)

\* [p.strip() for p in parts if p.strip()], for one piece of the split
KeepPart(piece) == IF Strip(piece) = <<>> THEN <<>> ELSE <<Strip(piece)>>

RECURSIVE PartsFrom(_, _, _, _)
\* the pieces of flat from position start on, cut before every boundary
PartsFrom(segment, flat, start, j) ==
   IF j > Len(flat) THEN KeepPart(SubSeq(flat, start, Len(flat)))
   ELSE IF j > start /\ BoundaryAt(segment, flat, j)
        THEN KeepPart(SubSeq(flat, start, j - 1)) \o PartsFrom(segment, flat, j, j + 1)
   ELSE PartsFrom(segment, flat, start, j + 1)

\* QUESTION_BLOCK_SPLIT.split(text) / ANSWER_BLOCK_SPLIT.split(text), the
\* parts stripped and the empty ones dropped
SplitParts(segment, flat) == PartsFrom(segment, flat, 1, 1)

\* re.match of the numbering pattern on the page's first part
NumberedPart(segment, part) == BoundaryAt(segment, part, 1)

\* QUESTION_START.match(part): ^\s*(\d+)\.\s*(.*)
QuestionStartMatches(part) ==
   /\ part # <<>> /\ IsNum(part[1])
   /\ (Len(part[1].n) >= 2 \/ part[1].p = ".")

\* the token \(([A-Z])\)\. and its letter
ChoiceOf(tok) ==
   CASE tok = W("(A).") -> Some("A")
     [] tok = W("(B).") -> Some("B")
     [] tok = W("(C).") -> Some("C")
     [] OTHER -> None

\* position of the choice of ANSWER_START.match(part), or 0:
\* ^\s*(\d+)\.\s+The correct answer is\s*\(([A-Z])\)\.\s*(.*)
ChoiceAt(part) ==
   IF ~(part # <<>> /\ AnswerBoundaryAt(part, 1)) THEN 0
   ELSE LET u == NextToken(part, NextToken(part, 1) + 3)
        IN  IF u # 0 /\ ChoiceOf(part[u]) # None THEN u ELSE 0

StartMatches(segment, part) ==
   IF segment = "questions" THEN QuestionStartMatches(part)
   ELSE ChoiceAt(part) # 0

\* the dict opened for a question
QuestionItem(part, pg, sec) ==
   [qnum |-> part[1].n[1],
    raw |-> part,
    page_ids |-> {pg.id},
    pdf_pages |-> {pg.pdf_page_number},
    section_title |-> sec.section_title,
    section_label |-> sec.section_label]

\* the dict opened for an answer
AnswerItem(part, pg, sec) ==
   LET u == ChoiceAt(part)
       rest == Strip(SubSeq(part, u + 1, Len(part)))
   IN  [anum |-> part[1].n[1],
        choice |-> ChoiceOf(part[u])[1],
        raw |-> part,
        answer_text |-> IF rest # <<>> THEN rest ELSE part,
        page_ids |-> {pg.id},
        pdf_pages |-> {pg.pdf_page_number},
        section_title |-> sec.section_title,
        section_label |-> sec.section_label]

NewItem(segment, part, pg, sec) ==
   IF segment = "questions" THEN QuestionItem(part, pg, sec)
   ELSE AnswerItem(part, pg, sec)

\* the state of the segment loop: the list built and the open item
SegState(items, open) == [items |-> items, carry |-> open]

\* faulty variant: the page's id is not added to the open item
ContinueItemKeepsPages(st, part, pg) ==
   [st EXCEPT !.items[st.carry[1]] = [@ EXCEPT !.raw = @ \o <<NL>> \o part]]

\* carry["raw"] += "\n" + parts[0]; carry["page_ids"].add(page.id)
ContinueItem(st, part, pg) ==
   [st EXCEPT !.items[st.carry[1]] =
                 [@ EXCEPT !.raw = @ \o <<NL>> \o part,
                           !.page_ids = @ \cup {pg.id}]]

\* faulty variant: the first item opened stays the open item
OpenItemKeepsCarry(st, item) ==
   SegState(Append(st.items, item),
            IF st.carry = None THEN Some(Len(st.items) + 1) ELSE st.carry)

\* carry = {...}; questions.append(carry)
OpenItem(st, item) ==
   SegState(Append(st.items, item), Some(Len(st.items) + 1))

\* faulty variant: a part that fails the start pattern closes the open item
SkipFragmentClosesItem(st, part) == [st EXCEPT !.carry = None]

\* if not m: continue
SkipFragment(st, part) == st

RECURSIVE SegmentParts(_, _, _, _, _)
\* for part in parts
SegmentParts(segment, st, parts, pg, sec) ==
   IF parts = <<>> THEN st
   ELSE LET part == Head(parts)
            after == IF StartMatches(segment, part)
                     THEN OpenItem(st, NewItem(segment, part, pg, sec))
                     ELSE SkipFragment(st, part)
        IN  SegmentParts(segment, after, Tail(parts), pg, sec)

\* the page's first part continues the open item
Continues(segment, st, parts) ==
   parts # <<>> /\ ~NumberedPart(segment, parts[1]) /\ st.carry # None

\* one iteration of "for page, text in chunks"
SegmentChunk(segment, st, pg, sec) ==
   LET parts == SplitParts(segment, JoinLines(pg.text))
   IN  IF Continues(segment, st, parts)
       THEN SegmentParts(segment, ContinueItem(st, parts[1], pg), Tail(parts), pg, sec)
       ELSE SegmentParts(segment, st, parts, pg, sec)

\* the entries build_lookup_from_pages puts into the lookup
PracticeSection == [section_label |-> "practice", section_title |-> "Practice Exercises"]
SolutionsSection == [section_label |-> "solutions", section_title |-> "Exercise Solutions"]

\* the filter of the first loop: the page is a chunk of the stream
IsChunk(segment, sec) ==
   /\ sec # None
   \* "Practice Exercises" in title / "Solutions" in title, on the two titles
   /\ IF segment = "questions" THEN sec[1].section_title = "Practice Exercises"
      ELSE sec[1].section_title = "Exercise Solutions"

\* page texts of a practice stream
QuestionLine(k, word) == <<Num(<<k>>, "."), W(word)>>
QuestionTexts ==
   { << QuestionLine(1, "What"), Words(<<"more">>) >>,
     << Words(<<"more">>), QuestionLine(2, "Why") >>,
     << Words(<<"more">>) >>,
     << QuestionLine(1, "What"), <<>>, QuestionLine(2, "Why") >>,
     << <<Num(<<3, 5>>, ""), W("is")>>, QuestionLine(4, "How") >>,
     << <<Num(<<3>>, ".")>> >>,
     <<>> }

\* page texts of a solutions stream
AnswerLine(k, choice) == <<Num(<<k>>, ".")>> \o AnswerPhrase \o <<W(choice)>>
AnswerTexts ==
   { << AnswerLine(1, "(A).") \o <<W("Because")>> >>,
     << Words(<<"more">>), AnswerLine(2, "(B).") >>,
     << Words(<<"more">>) >>,
     << AnswerLine(1, "(A)."), AnswerLine(2, "C"), Words(<<"more">>) >>,
     << AnswerLine(2, "B") >>,
     << QuestionLine(3, "Note") >>,
     <<>> }

PageId(k) == <<"page", k>>
Items == IF kind = "questions" THEN questions ELSE answers

\* one page of "for page in pages": the filter on its lookup entry and, for
\* a page of the stream, one iteration of "for page, text in chunks"
ExtractPage ==
   /\ kind \in {"questions", "answers"} /\ pc = "scan"
   /\ chunk_num < MaxStreamPages
   /\ \E text \in (IF kind = "questions" THEN QuestionTexts ELSE AnswerTexts),
         sec \in {None, Some(PracticeSection), Some(SolutionsSection)} :
         LET pg == [id |-> PageId(chunk_num + 1),
                    pdf_page_number |-> chunk_num + 1,
                    text |-> text]
             st == IF IsChunk(kind, sec)
                   THEN SegmentChunk(kind, SegState(Items, carry), pg, sec[1])
                   ELSE SegState(Items, carry)
         IN  /\ page' = pg
             /\ lookup' = Append(lookup, sec)
             /\ chunk_num' = chunk_num + 1
             /\ carry' = st.carry
             /\ questions' = IF kind = "questions" THEN st.items ELSE questions
             /\ answers' = IF kind = "answers" THEN st.items ELSE answers
   /\ UNCHANGED <<kind, pc, line_num, line, scanVars, sectionVars, first_detected,
                  registryVars, ret, matchVars>>

\* return questions / return answers
ExtractReturn ==
   /\ kind \in {"questions", "answers"} /\ pc = "scan"
   /\ pc' = "done"
   /\ carry' = None
   /\ UNCHANGED <<kind, line_num, line, scanVars, sectionVars, first_detected,
                  registryVars, ret, questions, answers, page, chunk_num, lookup, matchVars>>

\* the lines of a page header
HeaderLines ==
   { <<W("Chapter"), Num(<<2>>, ""), W("Practice"), W("Exercises")>>,
     Words(<<"Practice", "Problems">>),
     Words(<<"Chapter", "Exercises">>),
     Words(<<"Exercises">>),
     <<W("Chapter"), Num(<<2>>, ""), W("Exercise"), W("Solutions")>>,
     Words(<<"Solutions", "to", "Exercises">>),
     Words(<<"ANSWER", "key">>),
     <<W("Chapter"), Num(<<2>>, ""), W("Summary")>>,
     Words(<<"Chapter", "Review">>),
     <<W("Chapter"), Num(<<2>>, ""), W("Review")>>,
     Words(<<"Review", "Questions">>),
     Words(<<"Problems", "foo">>),
     Words(<<"foo">>),
     <<>> }

RECURSIVE SeqsUpTo(_, _)
\* the sequences over S of length at most k
SeqsUpTo(S, k) ==
   IF k = 0 THEN {<<>>}
   ELSE LET shorter == SeqsUpTo(S, k - 1)
        IN  shorter \cup {Append(t, x) : t \in shorter, x \in S}

\* k blank lines, then a heading
Padded(k, heading) == [i \in 1..(k + 1) |-> IF i <= k THEN <<>> ELSE heading]

\* page texts given to the classifier: short headers, and a heading on the
\* last line of the header window and on the line after it
HeaderTexts ==
   SeqsUpTo(HeaderLines, MaxHeaderLines)
      \cup {Padded(k, Words(<<"Answer", "Key">>)) : k \in {HeaderWindow - 1, HeaderWindow}}

\* a call of detect_special_page_type with the default patterns
DetectSpecialPage ==
   /\ kind = "classify" /\ pc = "ready"
   /\ ret' = [op |-> "detect_special_page_type", arg |-> 0,
              val |-> detect_special_page_type(line.text, SPECIAL_PAGE_PATTERNS)]
   /\ pc' = "done"
   /\ UNCHANGED <<kind, line_num, line, scanVars, sectionVars, first_detected,
                  registryVars, segVars, matchVars>>

(***************************************************************************)
(* qa_handler.py: the join key and match_questions_and_answers.  A string  *)
(* built by an f-string is the sequence of its pieces: the book id, "|",   *)
(* the label's pieces, "|", the decimal digits of the number.              *)
(***************************************************************************)
\* the words of the section titles of the model
TitleWords(title) ==
   CASE title = "Chapter 1 Practice Exercises" ->
           <<W("Chapter"), Num(<<1>>, ""), W("Practice"), W("Exercises")>>
     [] title = "CHAPTER 11 Practice Exercises" ->
           <<W("CHAPTER"), Num(<<11>>, ""), W("Practice"), W("Exercises")>>
     [] title = "Chapter 1 Exercise Solutions" ->
           <<W("Chapter"), Num(<<1>>, ""), W("Exercise"), W("Solutions")>>
     [] title = "chapter 11 Exercise Solutions" ->
           <<W("chapter"), Num(<<11>>, ""), W("Exercise"), W("Solutions")>>
     [] title = "Practice Exercises" -> Words(<<"Practice", "Exercises">>)
     [] title = "Exercise Solutions" -> Words(<<"Exercise", "Solutions">>)
     [] OTHER -> <<>>

\* str(d) for one decimal digit
DigitStr(d) ==
   CASE d = 0 -> "0" [] d = 1 -> "1" [] d = 2 -> "2" [] d = 3 -> "3"
     [] d = 4 -> "4" [] d = 5 -> "5" [] d = 6 -> "6" [] d = 7 -> "7"
     [] d = 8 -> "8" [] OTHER -> "9"

\* the decimal digits of a number below 100, as {number} formats it
DigitsOf(k) ==
   IF k < 10 THEN <<DigitStr(k)>>
   ELSE <<DigitStr(k \div 10), DigitStr(k % 10)>>

\* CHAPTER_RE.search(title or ""): positions of "Chapter" followed by digits
ChapterMatches(words) ==
   {i \in 1..(Len(words) - 1) :
      IsWord(words[i]) /\ Lower(words[i].w) = "chapter" /\ IsNum(words[i + 1])}

\* faulty variant: no label when the title holds no chapter pattern
ChapterKeyNoFallback(title) ==
   LET words == TitleWords(title)
       hits == ChapterMatches(words)
   IN  IF hits = {} THEN <<>>
       ELSE LET i == CHOOSE h \in hits : \A g \in hits : h <= g
            IN  <<"Chapter", " ">> \o DigitsOf(words[i + 1].n[1])

\* chapter_key(title): m.group(1).title() if m else "Chapter ?"
chapter_key(title) ==
   LET words == TitleWords(title)
       hits == ChapterMatches(words)
   IN  IF hits = {} THEN <<"Chapter", " ", "?">>
       ELSE LET i == CHOOSE h \in hits : \A g \in hits : h <= g
            IN  <<"Chapter", " ">> \o DigitsOf(words[i + 1].n[1])

\* faulty variant: the fields are joined without the separator
CanonicalKeyNoSeparator(book_id, chapter, number) ==
   <<book_id>> \o chapter \o DigitsOf(number)

\* canonical_problem_key: f"{book_id}|{chapter}|{number}"
canonical_problem_key(book_id, chapter, number) ==
   <<book_id, "|">> \o chapter \o <<"|">> \o DigitsOf(number)

\* faulty variant: the pair id is drawn from the random source
QaIdRandom(problem_key, rnd) == [uuid4 |-> <<rnd, 0>>]

\* qa_id_from_problem_key: str(uuid.uuid5(uuid.NAMESPACE_URL, problem_key));
\* rnd is the run's source of random uuids, which uuid5 does not read
qa_id_from_problem_key(problem_key, rnd) == [uuid5 |-> problem_key]

\* str(uuid.uuid4()): the k-th random uuid of a run
uuid4(rnd, k) == [uuid4 |-> <<rnd, k>>]
Uuid4Runs == {1, 2}

\* the key of an answer block and of a question block
AnswerKey(a, book_id) ==
   canonical_problem_key(book_id, chapter_key(a.section_title), a.anum)
QuestionKey(q, book_id) ==
   canonical_problem_key(book_id, chapter_key(q.section_title), q.qnum)

\* faulty variant: the first answer block of a key is kept
AnswerMapFirstWins(blocks, book_id) ==
   LET keys == {AnswerKey(blocks[j], book_id) : j \in 1..Len(blocks)}
   IN  [key \in keys |->
          LET at == {j \in 1..Len(blocks) : AnswerKey(blocks[j], book_id) = key}
          IN  blocks[CHOOSE j \in at : \A i \in at : j <= i]]

\* a_map: for a in a_blocks: a_map[key] = a
AnswerMap(blocks, book_id) ==
   LET keys == {AnswerKey(blocks[j], book_id) : j \in 1..Len(blocks)}
   IN  [key \in keys |->
          LET at == {j \in 1..Len(blocks) : AnswerKey(blocks[j], book_id) = key}
          IN  blocks[CHOOSE j \in at : \A i \in at : j >= i]]

\* QuestionRecord(...) of the loop
QuestionRecord(q, key, book_id, rnd, call) ==
   [id |-> uuid4(rnd, call),
    qa_id |-> qa_id_from_problem_key(key, rnd),
    book_id |-> book_id,
    \* pdf_page is not passed: the dataclass default stays
    pdf_page |-> None,
    problem_key |-> key,
    question_number |-> q.qnum,
    question_text |-> q.raw,
    page_ids |-> q.page_ids,
    section_titles |-> {q.section_title},
    section_labels |-> IF q.section_label # "" THEN {q.section_label} ELSE {}]

\* faulty variant: the answer record gets a pair id of its own
AnswerRecordOwnQaId(a, q, key, book_id, rnd, call) ==
   [id |-> uuid4(rnd, call),
    qa_id |-> uuid4(rnd, call),
    book_id |-> book_id,
    pdf_page |-> None,
    problem_key |-> key,
    answer_number |-> a.anum,
    answer_choice |-> a.choice,
    answer_text |-> a.raw,
    page_ids |-> a.page_ids,
    section_titles |-> {q.section_title},
    section_labels |-> IF a.section_label # "" THEN {q.section_label} ELSE {}]

\* AnswerRecord(...) of the loop
AnswerRecord(a, q, key, book_id, rnd, call) ==
   [id |-> uuid4(rnd, call),
    qa_id |-> qa_id_from_problem_key(key, rnd),
    book_id |-> book_id,
    pdf_page |-> None,
    problem_key |-> key,
    answer_number |-> a.anum,
    answer_choice |-> a.choice,
    answer_text |-> a.raw,
    page_ids |-> a.page_ids,
    section_titles |-> {q.section_title},
    section_labels |-> IF a.section_label # "" THEN {q.section_label} ELSE {}]

RECURSIVE MatchLoop(_, _, _, _, _, _)
\* for q in q_blocks: out is [questions_out, answers_out, calls of uuid4]
MatchLoop(blocks, a_map, book_id, rnd, i, out) ==
   IF i > Len(blocks) THEN out
   ELSE LET q == blocks[i]
            key == QuestionKey(q, book_id)
            qrec == QuestionRecord(q, key, book_id, rnd, out.calls + 1)
            withq == [out EXCEPT !.questions_out = Append(@, qrec),
                                 !.calls = @ + 1]
        IN  IF key \in DOMAIN a_map
            THEN MatchLoop(blocks, a_map, book_id, rnd, i + 1,
                    [withq EXCEPT
                       !.answers_out =
                          Append(@, AnswerRecord(a_map[key], q, key, book_id, rnd,
                                                 withq.calls + 1)),
                       !.calls = @ + 1])
            ELSE MatchLoop(blocks, a_map, book_id, rnd, i + 1, withq)

KeysOf(records) == {records[i].problem_key : i \in 1..Len(records)}

\* faulty variant: records are counted, not distinct keys
ReportCountsOfRecords(q_out, a_out) ==
   [questions |-> Len(q_out),
    answers |-> Len(a_out),
    matched |-> Len(a_out),
    unmatched_questions |-> Len(q_out) - Len(a_out),
    unmatched_answers |-> 0]

\* q_keys, a_keys and the five counts printed
ReportCounts(q_out, a_out) ==
   LET q_keys == KeysOf(q_out)
       a_keys == KeysOf(a_out)
   IN  [questions |-> Cardinality(q_keys),
        answers |-> Cardinality(a_keys),
        matched |-> Cardinality(q_keys \cap a_keys),
        unmatched_questions |-> Cardinality(q_keys \ a_keys),
        unmatched_answers |-> Cardinality(a_keys \ q_keys)]

\* match_questions_and_answers(q_blocks, a_blocks, book_id)
match_questions_and_answers(qs, as, book_id, rnd) ==
   LET out == MatchLoop(qs, AnswerMap(as, book_id), book_id, rnd, 1,
                        [questions_out |-> <<>>, answers_out |-> <<>>, calls |-> 0])
   IN  [questions_out |-> out.questions_out,
        answers_out |-> out.answers_out,
        printed |-> ReportCounts(out.questions_out, out.answers_out)]

BookId == "book"

\* blocks as extract_questions and extract_answers build them
QuestionBlock(number, title, label) ==
   [qnum |-> number,
    raw |-> QuestionLine(number, "What"),
    page_ids |-> {PageId(1)},
    pdf_pages |-> {1},
    section_title |-> title,
    section_label |-> label]
AnswerBlock(number, title, label, choice) ==
   [anum |-> number,
    choice |-> choice,
    raw |-> AnswerLine(number, "(" \o choice \o ")."),
    answer_text |-> AnswerLine(number, "(" \o choice \o ")."),
    page_ids |-> {PageId(2)},
    pdf_pages |-> {2},
    section_title |-> title,
    section_label |-> label]

\* the title "" stands for a title that is None or empty, the label "" for
\* a label that is None or empty
QuestionBlocks ==
   { QuestionBlock(12, "Chapter 1 Practice Exercises", "practice"),
     QuestionBlock(2, "CHAPTER 11 Practice Exercises", "practice"),
     QuestionBlock(2, "Practice Exercises", "practice"),
     QuestionBlock(2, "", ""),
     QuestionBlock(1, "Chapter 1 Practice Exercises", "1.2") }
AnswerBlocks ==
   { AnswerBlock(12, "Chapter 1 Exercise Solutions", "solutions", "A"),
     AnswerBlock(2, "chapter 11 Exercise Solutions", "solutions", "B"),
     AnswerBlock(2, "Exercise Solutions", "solutions", "A"),
     AnswerBlock(2, "Exercise Solutions", "", "B"),
     AnswerBlock(3, "Exercise Solutions", "solutions", "C"),
     AnswerBlock(2, "", "solutions", "C") }

\* what a run produced, without the records' random ids
WithoutId(rec) == [f \in DOMAIN rec \ {"id"} |-> rec[f]]
Outcome ==
   [boundaries |-> boundaries,
    sections |-> sections,
    questions |-> questions,
    answers |-> answers,
    questions_out |-> [i \in 1..Len(questions_out) |-> WithoutId(questions_out[i])],
    answers_out |-> [i \in 1..Len(answers_out) |-> WithoutId(answers_out[i])],
    printed |-> printed,
    raised |-> raised]
\* the random ids of the records of a run
RunIds ==
   [q |-> [i \in 1..Len(questions_out) |-> questions_out[i].id],
    a |-> [i \in 1..Len(answers_out) |-> answers_out[i].id]]
Snapshot == [outcome |-> Outcome, ids |-> RunIds]

\* a call of match_questions_and_answers; a later call is a rerun on the
\* same blocks
Match ==
   /\ kind = "match" /\ pc \in {"ready", "done"}
   /\ previous = None
   /\ \E rnd \in Uuid4Runs :
         LET out == match_questions_and_answers(q_blocks, a_blocks, BookId, rnd)
         IN  /\ questions_out' = out.questions_out
             /\ answers_out' = out.answers_out
             /\ printed' = out.printed
   /\ previous' = IF pc = "done" THEN Some(Snapshot) ELSE None
   /\ pc' = "done"
   /\ UNCHANGED <<kind, line_num, line, scanVars, sectionVars, first_detected,
                  registryVars, ret, segVars, pages_file, q_blocks, a_blocks, raised,
                  ran>>

NoCounts ==
   [questions |-> 0, answers |-> 0, matched |-> 0,
    unmatched_questions |-> 0, unmatched_answers |-> 0]

(***************************************************************************)
(* The functions that read a whole PageRecords file: the two boundary      *)
(* scans and qa_handler.py: parse_document_pages.                          *)
(***************************************************************************)
RECURSIVE ScanChapterLines(_, _, _)
\* "for line_num, line in enumerate(f, 1)" of scan_pagerecords_for_chapters
ScanChapterLines(file, i, st) ==
   IF i > Len(file) THEN st
   ELSE ScanChapterLines(file, i + 1, ScanChapterLine(st, file[i]))

\* scan_pagerecords_for_chapters(pages_file): the sorted boundaries
scan_pagerecords_for_chapters(file) ==
   SortBoundaries(ScanChapterLines(file, 1,
                     [boundaries |-> <<>>, seen_chapters |-> {},
                      last_page |-> 0, current_chapter |-> None]).boundaries)

RECURSIVE ScanSectionLines(_, _, _)
\* "for line_num, line in enumerate(f, 1)" of scan_pagerecords_for_sections
ScanSectionLines(file, i, st) ==
   IF i > Len(file) THEN st
   ELSE ScanSectionLines(file, i + 1, ScanSectionLine(st, file[i]))

\* scan_pagerecords_for_sections(pages_file): the sorted sections with
\* their page ends
scan_pagerecords_for_sections(file) ==
   LET st == ScanSectionLines(file, 1,
                [sections |-> <<>>, seen_sections |-> {}, last_page_num |-> 0])
   IN  ComputePageEnds(SortSections(st.sections), st.last_page_num)

\* PageRecord(id=record.get('id'), pdf_page_number=..., text=...)
PageRecordOf(ln) ==
   [id |-> PageId(ln.pdf_page_number),
    pdf_page_number |-> ln.pdf_page_number,
    text |-> ln.text]

RECURSIVE LoadPages(_, _, _)
\* "for line in f": a blank line is skipped; json.loads raises on a line
\* that is not JSON and nothing catches it
LoadPages(file, i, pages) ==
   IF i > Len(file) THEN [pages |-> pages, raised |-> FALSE]
   ELSE IF file[i].kind = "blank" THEN LoadPages(file, i + 1, pages)
   ELSE IF file[i].kind = "malformed" THEN [pages |-> pages, raised |-> TRUE]
   ELSE LoadPages(file, i + 1, Append(pages, PageRecordOf(file[i])))

\* "practice exercises" in text_lower: the words of a line are one space
\* apart
HasPracticeExercises(text) ==
   \E l \in 1..Len(text) :
      \E j \in 1..(Len(text[l]) - 1) :
         /\ Lower(text[l][j].w) = "practice"
         /\ Lower(text[l][j + 1].w) = "exercises"

\* "exercise solutions" in text_lower or "solutions" in text_lower
HasSolutions(text) ==
   \E l \in 1..Len(text) :
      \E j \in 1..Len(text[l]) : Lower(text[l][j].w) = "solutions"

RECURSIVE PageSections(_, _, _)
\* "for page in pages" of build_lookup_from_pages: the dict page_sections
PageSections(pages, i, page_sections) ==
   IF i > Len(pages) THEN page_sections
   ELSE LET page_num == pages[i].pdf_page_number
            entry == IF HasPracticeExercises(pages[i].text) THEN Some(PracticeSection)
                     ELSE IF HasSolutions(pages[i].text) THEN Some(SolutionsSection)
                     ELSE None
        IN  PageSections(pages, i + 1,
               IF entry = None THEN page_sections
               ELSE [q \in DOMAIN page_sections \cup {page_num} |->
                       IF q = page_num THEN entry[1] ELSE page_sections[q]])

\* build_lookup_from_pages(pages): the list indexed by page number (index 0,
\* always None, is left out)
build_lookup_from_pages(pages) ==
   LET page_sections == PageSections(pages, 1, <<>>)
       nums == DOMAIN page_sections
   IN  IF nums = {} THEN <<>>
       ELSE LET max_page == CHOOSE m \in nums : \A q \in nums : q <= m
            IN  [q \in 1..max_page |->
                   IF q \in nums THEN Some(page_sections[q]) ELSE None]

\* faulty variant: the last page of the lookup is out of range
InLookupOffByOne(page_num, lk) == page_num < Len(lk)

\* page.pdf_page_number < len(lookup), the list having one more entry (index
\* 0) than lk
InLookup(page_num, lk) == page_num <= Len(lk)

RECURSIVE ExtractFrom(_, _, _, _, _)
\* the two loops of extract_questions / extract_answers over all pages
ExtractFrom(segment, pages, lk, i, st) ==
   IF i > Len(pages) THEN st.items
   ELSE LET sec == IF InLookup(pages[i].pdf_page_number, lk)
                   THEN lk[pages[i].pdf_page_number] ELSE None
        IN  ExtractFrom(segment, pages, lk, i + 1,
               IF IsChunk(segment, sec)
               THEN SegmentChunk(segment, st, pages[i], sec[1])
               ELSE st)

extract_questions(pages, lk) == ExtractFrom("questions", pages, lk, 1, SegState(<<>>, None))
extract_answers(pages, lk) == ExtractFrom("answers", pages, lk, 1, SegState(<<>>, None))

\* parse_document_pages(jsonl_path, book_id)
parse_document_pages(file, book_id, rnd) ==
   LET loaded == LoadPages(file, 1, <<>>)
       lk == build_lookup_from_pages(loaded.pages)
       qs == extract_questions(loaded.pages, lk)
       as == extract_answers(loaded.pages, lk)
       out == match_questions_and_answers(qs, as, book_id, rnd)
       \* a record without pdf_page_number gives a page whose number is None:
       \* max() over the keys of page_sections, or the comparison with
       \* len(lookup) in extract_questions, raises TypeError
       unnumbered == \E i \in 1..Len(loaded.pages) : loaded.pages[i].pdf_page_number = 0
   IN  IF loaded.raised \/ unnumbered
       THEN [raised |-> TRUE, lookup |-> <<>>, questions |-> <<>>, answers |-> <<>>,
             questions_out |-> <<>>, answers_out |-> <<>>, printed |-> NoCounts]
       ELSE [raised |-> FALSE, lookup |-> lk, questions |-> qs, answers |-> as,
             questions_out |-> out.questions_out, answers_out |-> out.answers_out,
             printed |-> out.printed]

\* the records of a PageRecords file (pdf_page_number 0 stands here for a
\* record that has no page number): a chapter heading, a practice page and
\* a solutions page of that chapter, a later chapter heading with practice
\* exercises on the same page, and a section heading
PipeRecords ==
   { Record(1, << ChapterHeading(2), Words(<<"Data", "Structures">>) >>),
     Record(2, << Words(<<"Practice", "Exercises">>),
                  QuestionLine(1, "What"), QuestionLine(2, "Why") >>),
     Record(3, << Words(<<"Exercise", "Solutions">>),
                  AnswerLine(1, "(A).") \o <<W("Because")>>, AnswerLine(2, "(B).") >>),
     Record(6, << ChapterHeading(3), Words(<<"Practice", "Exercises">>),
                  QuestionLine(1, "What") >>),
     Record(4, << <<Num(<<2, 1>>, ""), W("Intro.")>> >>),
     \* a record without page number, and a record without text
     Record(0, << ChapterHeading(1), Words(<<"Practice", "Exercises">>),
                  QuestionLine(3, "How") >>),
     Record(2, <<>>) }
PipeLines == {BlankLine, MalformedLine} \cup PipeRecords

\* a book of four pages: two chapter headings, a practice page with two
\* questions and a solutions page with their answers
ScenarioFile ==
   << Record(45, << <<W("Chapter"), Num(<<1>>, ":"), W("Introduction")>>,
                    Words(<<"...">>) >>),
      Record(89, << ChapterHeading(2), Words(<<"Data", "Structures">>),
                    Words(<<"...">>) >>),
      Record(90, << Words(<<"Practice", "Exercises">>), <<>>,
                    <<Num(<<1>>, "."), W("What"), W("is"), W("X?")>>,
                    Words(<<"A)", "foo">>), Words(<<"B)", "bar">>), <<>>,
                    <<Num(<<2>>, "."), W("What"), W("is"), W("Y?")>> >>),
      Record(91, << Words(<<"Exercise", "Solutions">>), <<>>,
                    AnswerLine(1, "(A).") \o <<W("Because...")>>,
                    AnswerLine(2, "(B).") \o <<W("Because...")>> >>) >>

Stages == {"chapters", "sections", "parse"}
\* a function has run before: this run is the rerun, allowed once all have run
Rerun(stage) == stage \in ran
CanRun(stage) == stage \notin ran \/ (ran = Stages /\ previous = None)

ScanChaptersFile ==
   /\ kind = "pipeline" /\ CanRun("chapters")
   /\ boundaries' = scan_pagerecords_for_chapters(pages_file)
   /\ previous' = IF Rerun("chapters") THEN Some(Snapshot) ELSE previous
   /\ ran' = ran \cup {"chapters"}
   /\ UNCHANGED <<kind, pc, line_num, line, seen_chapters, last_page, current_chapter,
                  sectionVars, first_detected, registryVars, ret, segVars,
                  pages_file, q_blocks, a_blocks, questions_out, answers_out,
                  printed, raised>>

ScanSectionsFile ==
   /\ kind = "pipeline" /\ CanRun("sections")
   /\ sections' = scan_pagerecords_for_sections(pages_file)
   /\ previous' = IF Rerun("sections") THEN Some(Snapshot) ELSE previous
   /\ ran' = ran \cup {"sections"}
   /\ UNCHANGED <<kind, pc, line_num, line, scanVars, seen_sections, last_page_num,
                  first_detected, registryVars, ret, segVars,
                  pages_file, q_blocks, a_blocks, questions_out, answers_out,
                  printed, raised>>

ParseDocument ==
   /\ kind = "pipeline" /\ CanRun("parse")
   /\ \E rnd \in Uuid4Runs :
         \E out \in {parse_document_pages(pages_file, BookId, rnd)} :
             /\ raised' = out.raised
             /\ lookup' = out.lookup
             /\ questions' = out.questions
             /\ answers' = out.answers
             /\ questions_out' = out.questions_out
             /\ answers_out' = out.answers_out
             /\ printed' = out.printed
   /\ previous' = IF Rerun("parse") THEN Some(Snapshot) ELSE previous
   /\ ran' = ran \cup {"parse"}
   /\ UNCHANGED <<kind, pc, line_num, line, scanVars, sectionVars, first_detected,
                  registryVars, ret, carry, page, chunk_num,
                  pages_file, q_blocks, a_blocks>>

(***************************************************************************)
(* The two page-start detectors called on their own: one page text, and    *)
(* for detect_section_at_page_start a max_depth argument.                  *)
(***************************************************************************)
MaxDetectLines == 2
MaxDepth == 3

\* the lines of a page text given to the detectors
DetectLines ==
   { ChapterHeading(1),
     <<W("Chapter"), Num(<<1>>, ":"), W("Introduction")>>,
     Words(<<"Overview">>),
     Words(<<"Page">>),
     <<Num(<<7>>, "")>>,
     <<Num(<<1, 2>>, "")>>,
     <<Num(<<1, 2>>, ""), W("Basics")>>,
     <<Num(<<1, 2, 3>>, ""), W("Deep")>>,
     <<Num(<<1, 2, 3, 4>>, ""), W("Deeper")>>,
     <<>> }

DetectTexts == SeqsUpTo(DetectLines, MaxDetectLines)

\* a call of detect_chapter_at_page_start(text)
DetectChapter ==
   /\ kind = "detect" /\ pc = "ready"
   /\ ret' = [op |-> "detect_chapter_at_page_start", arg |-> 0,
              val |-> detect_chapter_at_page_start(line.text)]
   /\ UNCHANGED <<kind, pc, line_num, line, scanVars, sectionVars, first_detected,
                  registryVars, segVars, matchVars>>

\* a call of detect_section_at_page_start(text, max_depth=d)
DetectSection ==
   /\ kind = "detect" /\ pc = "ready"
   /\ \E d \in 1..MaxDepth :
         ret' = [op |-> "detect_section_at_page_start", arg |-> d,
                 val |-> detect_section_at_page_start(line.text, d, min_title_length)]
   /\ UNCHANGED <<kind, pc, line_num, line, scanVars, sectionVars, first_detected,
                  registryVars, segVars, matchVars>>

(***************************************************************************)
(* conversion_logger.py: ConversionLogger.  The file at log_path is the    *)
(* sequence of its lines, each the dict json.dumps wrote for one entry.    *)
(***************************************************************************)
MaxLogEntries == 3

\* ConversionLogEntry(document_title, document_id, document_file, converted)
ConversionLogEntry(title, id) ==
   [document_title |-> title, document_id |-> id, document_file |-> <<title, ".pdf">>,
    converted |-> FALSE, output_path |-> None, page_count |-> None,
    word_count |-> None, question_count |-> None]

\* every line of the file was written by json.dumps and parses back to the
\* entry it was written from
read_all_entries(file) == file
write_all_entries(entries) == entries

TitleIndexes(entries, pdf_name) ==
   {i \in 1..Len(entries) : entries[i].document_title = pdf_name}

\* get_entry: the first entry of that title, or None
get_entry(file, pdf_name) ==
   LET entries == read_all_entries(file)
       hits == TitleIndexes(entries, pdf_name)
   IN  IF hits = {} THEN None
       ELSE Some(entries[CHOOSE i \in hits : \A h \in hits : i <= h])

add_entry(file, entry) ==
   IF get_entry(file, entry.document_title) # None THEN file
   ELSE Append(file, entry)

\* for key, value in updates.items(): if hasattr(entry, key): setattr(...)
SetAttrs(entry, updates) ==
   [f \in DOMAIN entry |-> IF f \in DOMAIN updates THEN updates[f] ELSE entry[f]]

\* update_entry: the file afterwards and the value returned
update_entry(file, pdf_name, updates) ==
   LET entries == read_all_entries(file)
       hits == TitleIndexes(entries, pdf_name)
   IN  IF hits = {} THEN [file |-> file, found |-> FALSE]
       ELSE LET i == CHOOSE h \in hits : \A g \in hits : h <= g
            IN  [file |-> write_all_entries(
                             [entries EXCEPT ![i] = SetAttrs(entries[i], updates)]),
                 found |-> TRUE]

mark_as_converted(file, pdf_name, output_path, page_count, word_count) ==
   update_entry(file, pdf_name,
                [converted |-> TRUE, output_path |-> output_path,
                 page_count |-> page_count, word_count |-> word_count])

delete_entry(file, pdf_name) ==
   LET entries == read_all_entries(file)
       IsKept(e) == e.document_title # pdf_name
       kept == SelectSeq(entries, IsKept)
   IN  IF Len(kept) < Len(entries)
       THEN [file |-> write_all_entries(kept), found |-> TRUE]
       ELSE [file |-> file, found |-> FALSE]

\* the arguments of the calls
LogTitles == {"a", "b"}
LogIds == {"id1", "id2"}
LogUpdates ==
   { [question_count |-> 1],
     [document_title |-> "b"],
     [colour |-> "red"] }

LogCall(op, arg, val) ==
   /\ ret' = [op |-> op, arg |-> arg, val |-> val]
   /\ UNCHANGED <<kind, pc, line_num, line, scanVars, sectionVars, first_detected,
                  registry, finalized, segVars, matchVars>>

AddEntry ==
   /\ kind = "log" /\ Len(log) < MaxLogEntries
   /\ \E title \in LogTitles, id \in LogIds :
         /\ log' = add_entry(log, ConversionLogEntry(title, id))
         /\ LogCall("add_entry", title, None)

UpdateEntry ==
   /\ kind = "log"
   /\ \E pdf_name \in LogTitles, updates \in LogUpdates :
         \E out \in {update_entry(log, pdf_name, updates)} :
            /\ log' = out.file
            /\ LogCall("update_entry", pdf_name, out.found)

MarkAsConverted ==
   /\ kind = "log"
   /\ \E pdf_name \in LogTitles :
         \E out \in {mark_as_converted(log, pdf_name, "out", 0, 0)} :
            /\ log' = out.file
            /\ LogCall("mark_as_converted", pdf_name, out.found)

DeleteEntry ==
   /\ kind = "log"
   /\ \E pdf_name \in LogTitles :
         \E out \in {delete_entry(log, pdf_name)} :
            /\ log' = out.file
            /\ LogCall("delete_entry", pdf_name, out.found)

NoPage == [id |-> 0, pdf_page_number |-> 0, text |-> <<>>]

\* the state before any function has run
Fresh ==
   /\ line_num = 0
   /\ boundaries = <<>>
   /\ seen_chapters = {}
   /\ last_page = 0
   /\ current_chapter = None
   /\ sections = <<>>
   /\ seen_sections = {}
   /\ last_page_num = 0
   /\ first_detected = {}
   /\ registry = <<>>
   /\ finalized = FALSE
   /\ ret = NoRet
   /\ questions = <<>>
   /\ answers = <<>>
   /\ carry = None
   /\ page = NoPage
   /\ chunk_num = 0
   /\ lookup = <<>>
   /\ questions_out = <<>>
   /\ answers_out = <<>>
   /\ printed = NoCounts
   /\ raised = FALSE
   /\ previous = None
   /\ ran = {}
   /\ log = <<>>

Init ==
   /\ kind \in {"chapters", "sections", "registry"}
   /\ pc = IF kind = "registry" THEN "ready" ELSE "scan"
   /\ line = NoLine
   /\ pages_file = <<>> /\ q_blocks = <<>> /\ a_blocks = <<>>
   /\ Fresh

Next ==
   \/ ChapterReadLine
   \/ ChapterFinish
   \/ SectionReadLine
   \/ SectionFinish
   \/ AutofillRecord
   \/ RegisterChapter
   \/ Finalize
   \/ GetChapterId
   \/ GetChapterInfo

Spec == Init /\ [][Next]_vars

\* the classifier alone, on one page text
InitClassify ==
   /\ kind = "classify"
   /\ pc = "ready"
   /\ line \in {Record(1, t) : t \in HeaderTexts}
   /\ pages_file = <<>> /\ q_blocks = <<>> /\ a_blocks = <<>>
   /\ Fresh

NextClassify == DetectSpecialPage

SpecClassify == InitClassify /\ [][NextClassify]_vars

\* extract_questions or extract_answers over a stream of pages
InitSeg ==
   /\ kind \in {"questions", "answers"}
   /\ pc = "scan"
   /\ line = NoLine
   /\ pages_file = <<>> /\ q_blocks = <<>> /\ a_blocks = <<>>
   /\ Fresh

NextSeg ==
   \/ ExtractPage
   \/ ExtractReturn

SpecSeg == InitSeg /\ [][NextSeg]_vars

\* match_questions_and_answers on lists of blocks
InitMatch ==
   /\ kind = "match"
   /\ pc = "ready"
   /\ line = NoLine
   /\ pages_file = <<>>
   /\ q_blocks \in SeqsUpTo(QuestionBlocks, MaxBlocks)
   /\ a_blocks \in SeqsUpTo(AnswerBlocks, MaxBlocks)
   /\ Fresh

NextMatch == Match

SpecMatch == InitMatch /\ [][NextMatch]_vars

\* the boundary scans and parse_document_pages on one PageRecords file
InitPipe ==
   /\ kind = "pipeline"
   /\ pc = "ready"
   /\ line = NoLine
   /\ pages_file \in SeqsUpTo(PipeLines, MaxFileLines) \cup {ScenarioFile}
   /\ q_blocks = <<>> /\ a_blocks = <<>>
   /\ Fresh

NextPipe ==
   \/ ScanChaptersFile
   \/ ScanSectionsFile
   \/ ParseDocument

SpecPipe == InitPipe /\ [][NextPipe]_vars

\* the page-start detectors on one page text
InitDetect ==
   /\ kind = "detect"
   /\ pc = "ready"
   /\ line \in {Record(1, t) : t \in DetectTexts}
   /\ pages_file = <<>> /\ q_blocks = <<>> /\ a_blocks = <<>>
   /\ Fresh

NextDetect ==
   \/ DetectChapter
   \/ DetectSection

SpecDetect == InitDetect /\ [][NextDetect]_vars

\* the conversion log, from the empty file
InitLog ==
   /\ kind = "log"
   /\ pc = "ready"
   /\ line = NoLine
   /\ pages_file = <<>> /\ q_blocks = <<>> /\ a_blocks = <<>>
   /\ Fresh

NextLog ==
   \/ AddEntry
   \/ UpdateEntry
   \/ MarkAsConverted
   \/ DeleteEntry

SpecLog == InitLog /\ [][NextLog]_vars

(***************************************************************************)
(* Properties of the boundary scans and of the point lookup.               *)
(***************************************************************************)
\* the list a finished scan returned
Returned == IF kind = "chapters" THEN boundaries ELSE sections
StartOf(b) == IF kind = "chapters" THEN b.page_number ELSE b.page_start
NumeralOf(b) == IF kind = "chapters" THEN b.chapter_number ELSE b.section_number
\* a boundary's end page; a chapter boundary has no such field
EndPageOf(b) == IF "page_end" \in DOMAIN b THEN b.page_end ELSE None

ScanDone == kind \in {"chapters", "sections"} /\ pc = "done"
ScanStep == kind \in {"chapters", "sections"} /\ pc = "scan" /\ line_num' = line_num + 1

\* the candidate a line of the chapter scan carries, or None
CandidateOf(ln) == IF IsPage(ln) THEN detect_chapter_at_page_start(ln.text) ELSE None

\* C1: for a finalized registry (and for the boundaries the chapter scan
\* returned) and every page P, the point lookup returns a boundary with the
\* greatest start page <= P, and the "no chapter" value (None / ch00) when no
\* boundary starts at or before P: the result of a brute-force scan.
LookedUp ==
   IF ret.op = "get_chapter_for_page" THEN boundaries ELSE registry
AtOrBefore(list, P) == {k \in 1..Len(list) : list[k].page_number <= P}
Greatest(list, P) ==
   {k \in AtOrBefore(list, P) :
      \A j \in AtOrBefore(list, P) : list[j].page_number <= list[k].page_number}
C1_PointLookup ==
   /\ (ret.op = "get_chapter_info" /\ finalized) \/ ret.op = "get_chapter_for_page"
         => IF AtOrBefore(LookedUp, ret.arg) = {}
            THEN ret.val = None
            ELSE \E k \in Greatest(LookedUp, ret.arg) : ret.val = Some(LookedUp[k])
   /\ (ret.op = "get_chapter_id" /\ finalized)
         => IF AtOrBefore(registry, ret.arg) = {}
            THEN ret.val = [prefix |-> "ch", digits |-> <<0, 0>>]
            ELSE \E k \in Greatest(registry, ret.arg) :
                    ret.val = ChapterId(registry[k].chapter_number)
C1_Witness ==
   /\ ret.op = "get_chapter_info" /\ finalized
   /\ Len(registry) = 3
   /\ registry[1].page_number < registry[2].page_number
   /\ ret.arg = registry[2].page_number
   /\ ret.arg < registry[3].page_number
   /\ ret.val = Some(registry[2])

\* C2: after either scan has finished, the returned boundary list has
\* strictly increasing start pages and every boundary has end_page >= its
\* start page.
C2_Monotone ==
   ScanDone =>
      /\ \A i \in 1..(Len(Returned) - 1) : StartOf(Returned[i]) < StartOf(Returned[i + 1])
      /\ \A i \in 1..Len(Returned) :
            /\ EndPageOf(Returned[i]) # None
            /\ EndPageOf(Returned[i])[1] >= StartOf(Returned[i])

\* C3: a chapter candidate on a page fewer than min_page_gap pages after the
\* last accepted boundary is not registered, and any two consecutive chapter
\* boundaries start at least min_page_gap pages apart.
C3_GapStep ==
   (kind = "chapters" /\ ScanStep /\ CandidateOf(line') # None
      /\ last_page > 0 /\ line'.pdf_page_number - last_page < min_page_gap)
   => boundaries' = boundaries
C3_GapApart ==
   kind = "chapters" =>
      \A i \in 1..(Len(boundaries) - 1) :
         boundaries[i + 1].page_number - boundaries[i].page_number >= min_page_gap
C3_MinPageGap == []C3_GapApart /\ [][C3_GapStep]_vars
\* a candidate with a fresh numeral in range was just rejected for its gap
C3_Witness ==
   /\ kind = "chapters" /\ pc = "scan"
   /\ CandidateOf(line) # None
   /\ CandidateOf(line)[1].chapter_num \notin seen_chapters
   /\ ~OutOfRange(CandidateOf(line)[1].chapter_num)
   /\ last_page > 0 /\ line.pdf_page_number - last_page = 2
   /\ Len(boundaries) = 1

\* C4 (as claimed): no numeral appears twice in a finalized registry, and the
\* boundary kept for a numeral is the one from the first page on which that
\* numeral was detected.
NoNumeralTwice ==
   \A i, j \in 1..Len(Returned) :
      NumeralOf(Returned[i]) = NumeralOf(Returned[j]) => i = j
C4_FirstDetectedWins ==
   ScanDone =>
      /\ NoNumeralTwice
      /\ \A i \in 1..Len(Returned) :
            <<NumeralOf(Returned[i]), StartOf(Returned[i])>> \in first_detected

\* C4 (amended): no numeral appears twice; a section boundary is the one
\* from the first page on which its numeral was detected; a chapter boundary
\* is the one from the first page on which its numeral was detected and
\* passed the range and gap validation; a boundary once kept is never
\* replaced.
Kept(list) == {<<NumeralOf(list[i]), StartOf(list[i])>> : i \in 1..Len(list)}
C4_ChapterStep ==
   (kind = "chapters" /\ ScanStep) =>
      LET c == CandidateOf(line')
          fresh == /\ c # None
                   /\ c[1].chapter_num \notin {b.chapter_number : b \in {boundaries[i] : i \in 1..Len(boundaries)}}
                   /\ min_chapter <= c[1].chapter_num /\ c[1].chapter_num <= max_chapter
                   /\ ~(last_page > 0 /\ line'.pdf_page_number - last_page < min_page_gap)
      IN  Kept(boundaries') =
             Kept(boundaries) \cup
                (IF fresh THEN {<<c[1].chapter_num, line'.pdf_page_number>>} ELSE {})
C4_Sections ==
   kind = "sections" =>
      \A i \in 1..Len(sections) :
         <<sections[i].section_number, sections[i].page_start>> \in first_detected
C4_Finish == (pc = "scan" /\ pc' = "done") => Kept(Returned') = Kept(Returned)
C4_FirstAcceptedWins ==
   /\ [](kind \in {"chapters", "sections"} => NoNumeralTwice /\ C4_Sections)
   /\ [][C4_ChapterStep /\ C4_Finish]_vars
\* chapter 2 was first detected on a page where it was rejected, and kept
\* from a later page
C4_Witness ==
   /\ kind = "chapters" /\ pc = "done"
   /\ \E i \in 1..Len(boundaries) :
         /\ boundaries[i].chapter_number = 2
         /\ <<2, boundaries[i].page_number>> \notin first_detected

\* C5: when a chapter candidate is rejected (numeral out of range, numeral
\* already registered, or page gap below min_page_gap) the boundary list, the
\* seen numerals, the last accepted page and the current chapter are as
\* before the page, and the scan goes on.
C5_RejectedStep ==
   LET c == CandidateOf(line')
   IN  (kind = "chapters" /\ ScanStep /\ c # None
          /\ \/ c[1].chapter_num < min_chapter
             \/ c[1].chapter_num > max_chapter
             \/ c[1].chapter_num \in seen_chapters
             \/ last_page > 0 /\ line'.pdf_page_number - last_page < min_page_gap)
       => /\ UNCHANGED <<boundaries, seen_chapters, last_page, current_chapter>>
          /\ pc' = "scan"
C5_RejectLeavesState == [][C5_RejectedStep]_vars
\* a candidate whose numeral is already registered was just rejected, far
\* enough from the last accepted page
C5_Witness ==
   /\ kind = "chapters" /\ pc = "scan"
   /\ CandidateOf(line) # None
   /\ CandidateOf(line)[1].chapter_num \in seen_chapters
   /\ line.pdf_page_number - last_page >= min_page_gap
   /\ line_num = 2

\* C6: after finalization every boundary except the last has end_page equal
\* to the next boundary's start page minus 1, and the last boundary's
\* end_page is the last page number seen (the chapter scan tracks no last
\* page number: its last boundary is only required to carry an end page).
C6_EndPages ==
   ScanDone =>
      /\ \A i \in 1..(Len(Returned) - 1) :
            EndPageOf(Returned[i]) = Some(StartOf(Returned[i + 1]) - 1)
      /\ Returned # <<>> =>
            IF kind = "sections"
            THEN EndPageOf(Returned[Len(Returned)]) = Some(last_page_num)
            ELSE EndPageOf(Returned[Len(Returned)]) # None

\* C7: once a chapter boundary is current, every later page that does not
\* itself open a new chapter boundary is run through the special-page
\* classifier and every hit is attached to the current boundary, with that
\* chapter's number; pages before the first accepted chapter attach nothing.
SpecialPagesOf(list, chapter_num) ==
   LET at == {i \in 1..Len(list) : list[i].chapter_number = chapter_num}
   IN  IF at = {} THEN <<>> ELSE list[CHOOSE i \in at : TRUE].special_pages
C7_Step ==
   (kind = "chapters" /\ ScanStep /\ IsPage(line') /\ Len(boundaries') = Len(boundaries))
   => LET hit == detect_special_page_type(line'.text, SPECIAL_PAGE_PATTERNS)
      IN  IF current_chapter # None /\ hit # None
          THEN SpecialPagesOf(boundaries', current_chapter[1]) =
                  Append(SpecialPagesOf(boundaries, current_chapter[1]),
                         [page_type |-> hit[1].page_type,
                          page_number |-> line'.pdf_page_number,
                          chapter_number |-> current_chapter[1],
                          title |-> Some(hit[1].matched_text)])
          ELSE boundaries' = boundaries
C7_SpecialPagesAttached == [][C7_Step]_vars

(***************************************************************************)
(* Properties of the special-page classifier.                              *)
(***************************************************************************)
CategoryOrder == <<"practice", "solutions", "summary", "review">>
\* some pattern of the category matches within the header window
CategoryMatches(page_type, text) ==
   \E c \in 1..Len(SPECIAL_PAGE_PATTERNS) :
      /\ SPECIAL_PAGE_PATTERNS[c].page_type = page_type
      /\ \E k \in 1..Len(SPECIAL_PAGE_PATTERNS[c].pattern_list) :
            Search(SPECIAL_PAGE_PATTERNS[c].pattern_list[k],
                   JoinLines(FirstLines(text, HeaderWindow))) # None
MatchingCategories(text) ==
   {c \in 1..Len(CategoryOrder) : CategoryMatches(CategoryOrder[c], text)}

\* C8: detect_special_page_type returns the first category, in the order
\* practice, solutions, summary, review, that has a pattern matching within
\* the first 20 lines of the text, and "no match" when no pattern matches
\* there or the text is empty.
C8_CategoryOrder ==
   ret.op = "detect_special_page_type" =>
      LET matching == MatchingCategories(line.text)
      IN  IF line.text = <<>> \/ matching = {}
          THEN ret.val = None
          ELSE /\ ret.val # None
               /\ \E c \in matching :
                     /\ \A d \in matching : c <= d
                     /\ ret.val[1].page_type = CategoryOrder[c]
\* a header that matches a practice and a solutions pattern was classified
C8_Witness ==
   /\ ret.op = "detect_special_page_type"
   /\ {1, 2} \subseteq MatchingCategories(line.text)
   /\ ret.val # None
   /\ ret.val[1].page_type = "practice"

(***************************************************************************)
(* Properties of the block segmenter.                                      *)
(***************************************************************************)
\* the step processes page' as a page of the stream
ChunkStep ==
   /\ kind \in {"questions", "answers"}
   /\ chunk_num' = chunk_num + 1
   /\ IsChunk(kind, lookup'[chunk_num'])
\* the fragments of page', and whether the first one continues the open item
FragmentsOf(pg) == SplitParts(kind, JoinLines(pg.text))
Continued(pg) ==
   FragmentsOf(pg) # <<>> /\ ~NumberedPart(kind, FragmentsOf(pg)[1]) /\ carry # None

\* C9: when a page of the stream begins with a fragment that does not start
\* with the numbering pattern and an item is open, the fragment is appended
\* to the open item's raw text, the page's id is added to its page_ids and
\* no item is created for the fragment; a two-page stream whose page 1 ends
\* mid-item and whose page 2 is a non-numbered fragment followed by one
\* numbered item yields exactly 2 items, item 1 with both pages' ids.
C9_Carry ==
   (ChunkStep /\ Continued(page')) =>
      LET fragment == FragmentsOf(page')[1]
          open == carry[1]
      IN  /\ Items'[open].raw = Items[open].raw \o <<NL>> \o fragment
          /\ Items'[open].page_ids = Items[open].page_ids \cup {page'.id}
          /\ Len(Items') <= Len(Items) + Len(FragmentsOf(page')) - 1
          /\ \A k \in (Len(Items) + 1)..Len(Items') : Items'[k].raw # fragment
C9_TwoPages ==
   (ChunkStep /\ chunk_num = 1 /\ Len(Items) = 1
      /\ Len(FragmentsOf(page')) = 2
      /\ ~NumberedPart(kind, FragmentsOf(page')[1])
      /\ StartMatches(kind, FragmentsOf(page')[2]))
   => /\ Len(Items') = 2
      /\ Items'[1].page_ids = {page.id, page'.id}
C9_ContinuationCarry == [][C9_Carry /\ C9_TwoPages]_vars
\* the two-page stream was segmented
C9_Witness ==
   /\ kind = "questions" /\ chunk_num = 2
   /\ Len(FragmentsOf(page)) = 2
   /\ ~NumberedPart(kind, FragmentsOf(page)[1])
   /\ Len(questions) = 2
   /\ questions[1].page_ids = {PageId(1), PageId(2)}
   /\ questions[2].page_ids = {PageId(2)}

\* C10: a fragment the item loop sees that fails the item start pattern
\* produces no item and changes neither the open item nor the items built
\* before; the fragments after it are still segmented (the page's leading
\* fragment that continues an open item is C9's case).
C10_Step ==
   ChunkStep =>
      LET seen == IF Continued(page') THEN Tail(FragmentsOf(page'))
                  ELSE FragmentsOf(page')
          Good(part) == StartMatches(kind, part)
          good == SelectSeq(seen, Good)
      IN  /\ Len(Items') = Len(Items) + Len(good)
          /\ \A k \in 1..Len(good) : Items'[Len(Items) + k].raw = good[k]
          /\ \A k \in 1..Len(Items) :
                (Continued(page') /\ carry = Some(k)) \/ Items'[k] = Items[k]
          /\ carry' = IF good = <<>> THEN carry ELSE Some(Len(Items'))
C10_FragmentDropped == [][C10_Step]_vars
\* a well-formed answer followed by a malformed one was segmented
C10_Witness ==
   /\ kind = "answers" /\ chunk_num = 1 /\ pc = "scan"
   /\ IsChunk(kind, lookup[1])
   /\ Len(FragmentsOf(page)) = 2
   /\ StartMatches(kind, FragmentsOf(page)[1])
   /\ ~StartMatches(kind, FragmentsOf(page)[2])
   /\ Len(answers) = 1
   /\ carry = Some(1)

(***************************************************************************)
(* Properties of the matching engine.                                      *)
(***************************************************************************)
Matched == kind = "match" /\ pc = "done"
\* the (chapter_label, item_number) pair of a block
QuestionPair(q) == <<chapter_key(q.section_title), q.qnum>>
AnswerPair(a) == <<chapter_key(a.section_title), a.anum>>
\* Q and A: the keys of all question blocks and of all answer blocks
QKeys == {QuestionKey(q_blocks[i], BookId) : i \in 1..Len(q_blocks)}
AKeys == {AnswerKey(a_blocks[j], BookId) : j \in 1..Len(a_blocks)}
WithKey(records, key) == {i \in 1..Len(records) : records[i].problem_key = key}

\* C11: every question key of Q appears exactly once among the emitted
\* QuestionRecords, whether or not an answer with that key exists.
C11_QuestionKeyOnce ==
   Matched => \A key \in QKeys : Cardinality(WithKey(questions_out, key)) = 1

\* C12: for every key at most one AnswerRecord carrying it is emitted, also
\* when several question blocks derive the same key.
C12_AtMostOneAnswer ==
   Matched =>
      \A key \in QKeys \cup AKeys : Cardinality(WithKey(answers_out, key)) <= 1

\* C13: an answer block whose key matches no question is retained in the
\* output and counted: "Unmatched answers" is |A \ Q| and "Answers" is |A|.
C13_UnmatchedAnswersKept ==
   Matched =>
      /\ \A key \in AKeys : WithKey(answers_out, key) # {}
      /\ printed.unmatched_answers = Cardinality(AKeys \ QKeys)
      /\ printed.answers = Cardinality(AKeys)

\* C14: the "Matched" count is |Q \cap A| and the "Unmatched questions"
\* count is |Q \ A|.
C14_MatchedCount ==
   Matched =>
      /\ printed.matched = Cardinality(QKeys \cap AKeys)
      /\ printed.unmatched_questions = Cardinality(QKeys \ AKeys)
\* a matched key, an unmatched question and an unmatched answer were
\* counted
C14_Witness ==
   /\ Matched
   /\ QKeys \cap AKeys # {} /\ QKeys \ AKeys # {} /\ AKeys \ QKeys # {}
   /\ printed.matched = 1 /\ printed.unmatched_questions = 1

\* C15: when several answer blocks derive one key, the AnswerRecord paired
\* with a question of that key is built from the last of them in stream
\* order.
LastWithKey(key) ==
   LET at == {j \in 1..Len(a_blocks) : AnswerKey(a_blocks[j], BookId) = key}
   IN  a_blocks[CHOOSE j \in at : \A i \in at : j >= i]
C15_LastWriterWins ==
   Matched =>
      \A i \in 1..Len(answers_out) :
         LET arec == answers_out[i]
         IN  /\ arec.problem_key \in AKeys
             /\ arec.answer_number = LastWithKey(arec.problem_key).anum
             /\ arec.answer_choice = LastWithKey(arec.problem_key).choice
             /\ arec.answer_text = LastWithKey(arec.problem_key).raw
             /\ arec.page_ids = LastWithKey(arec.problem_key).page_ids
\* two answer blocks of one key and different choices, and a question of
\* that key
C15_Witness ==
   /\ Matched
   /\ Len(a_blocks) = 2 /\ Len(answers_out) = 1
   /\ AnswerKey(a_blocks[1], BookId) = AnswerKey(a_blocks[2], BookId)
   /\ a_blocks[1].choice # a_blocks[2].choice
   /\ answers_out[1].answer_choice = a_blocks[2].choice

\* C16: two items of one book get the same key if and only if their
\* (chapter_label, item_number) pairs are equal; a question and an answer
\* with equal pairs are paired, items with different pairs never are.
C16_KeyIffPair ==
   Matched =>
      /\ Len(questions_out) = Len(q_blocks)
      /\ \A i, k \in 1..Len(q_blocks) :
            /\ questions_out[i].problem_key = questions_out[k].problem_key
                  <=> QuestionPair(q_blocks[i]) = QuestionPair(q_blocks[k])
            /\ questions_out[i].qa_id = questions_out[k].qa_id
                  <=> QuestionPair(q_blocks[i]) = QuestionPair(q_blocks[k])
      /\ \A i \in 1..Len(q_blocks), j \in 1..Len(a_blocks) :
            QuestionPair(q_blocks[i]) = AnswerPair(a_blocks[j])
               => \E n \in 1..Len(answers_out) :
                     answers_out[n].qa_id = questions_out[i].qa_id
      /\ \A i \in 1..Len(q_blocks), n \in 1..Len(answers_out) :
            answers_out[n].qa_id = questions_out[i].qa_id
               => \E j \in 1..Len(a_blocks) :
                     /\ AnswerPair(a_blocks[j]) = QuestionPair(q_blocks[i])
                     /\ answers_out[n].answer_number = a_blocks[j].anum
                     /\ answers_out[n].answer_choice = a_blocks[j].choice
\* question 12 of chapter 1 and question 2 of chapter 11 were matched, and
\* only the first has an answer
C16_Witness ==
   /\ Matched
   /\ Len(q_blocks) = 2 /\ Len(answers_out) = 1
   /\ QuestionPair(q_blocks[1]) = <<<<"Chapter", " ", "1">>, 12>>
   /\ QuestionPair(q_blocks[2]) = <<<<"Chapter", " ", "1", "1">>, 2>>
   /\ answers_out[1].qa_id = questions_out[1].qa_id
   /\ answers_out[1].qa_id # questions_out[2].qa_id

\* C18: an item whose section title holds no "Chapter N" (or is absent) gets
\* the label "Chapter ?": its record is produced, and all such items with
\* the same number share one key.
Unlabelled == {"", "Practice Exercises", "Exercise Solutions"}
C18_ChapterFallback ==
   Matched =>
      /\ Len(questions_out) = Len(q_blocks)
      /\ \A i \in 1..Len(q_blocks) :
            q_blocks[i].section_title \in Unlabelled
               => questions_out[i].problem_key =
                     <<BookId, "|", "Chapter", " ", "?", "|">> \o DigitsOf(q_blocks[i].qnum)
      /\ \A n \in 1..Len(answers_out) :
            \A j \in 1..Len(a_blocks) :
               (a_blocks[j].section_title \in Unlabelled
                  /\ a_blocks[j].anum = answers_out[n].answer_number
                  /\ answers_out[n].problem_key[5] = "?")
               => answers_out[n].problem_key =
                     <<BookId, "|", "Chapter", " ", "?", "|">> \o DigitsOf(a_blocks[j].anum)
\* a question without title and a question titled "Practice Exercises", of
\* the same number, got one key, and an answer titled "Exercise Solutions"
\* was paired with them
C18_Witness ==
   /\ Matched
   /\ Len(q_blocks) = 2
   /\ q_blocks[1].section_title = "" /\ q_blocks[2].section_title = "Practice Exercises"
   /\ questions_out[1].problem_key = questions_out[2].problem_key
   /\ questions_out[1].problem_key[5] = "?"
   /\ Len(answers_out) = 2
   /\ answers_out[1].problem_key = questions_out[1].problem_key

(***************************************************************************)
(* Properties of the functions that read a whole PageRecords file.         *)
(***************************************************************************)
FirstPage(block) == CHOOSE q \in block.pdf_pages : \A r \in block.pdf_pages : q <= r
\* the numbers of the chapter boundary covering page P
ActiveChapter(P) == {boundaries[k].chapter_number : k \in Greatest(boundaries, P)}
Parsed == kind = "pipeline" /\ "parse" \in ran /\ ~raised

\* C17: the chapter label in an item's key is the "Chapter N" of the chapter
\* boundary covering the item's first page, and two items of the same number
\* in different chapters get different keys.
C17_ChapterOfFirstPage ==
   (Parsed /\ "chapters" \in ran) =>
      /\ Len(questions_out) = Len(questions)
      /\ \A i \in 1..Len(questions) :
            \A N \in ActiveChapter(FirstPage(questions[i])) :
               questions_out[i].problem_key =
                  canonical_problem_key(BookId, <<"Chapter", " ">> \o DigitsOf(N),
                                        questions[i].qnum)
      /\ \A i, k \in 1..Len(questions) :
            (/\ questions[i].qnum = questions[k].qnum
             /\ ActiveChapter(FirstPage(questions[i])) # {}
             /\ ActiveChapter(FirstPage(questions[k])) # {}
             /\ ActiveChapter(FirstPage(questions[i]))
                   # ActiveChapter(FirstPage(questions[k])))
               => questions_out[i].problem_key # questions_out[k].problem_key

Valid(file) == SelectSeq(file, LAMBDA ln : ln.kind = "record")
IdLess(records) == [i \in 1..Len(records) |-> WithoutId(records[i])]

\* C20: blank and malformed lines between the page records change nothing:
\* boundaries, sections, item blocks and records are those of the file
\* without these lines, and no function aborts on such a line.
C20_NoiseIgnored ==
   kind = "pipeline" =>
      /\ "chapters" \in ran =>
            boundaries = scan_pagerecords_for_chapters(Valid(pages_file))
      /\ "sections" \in ran =>
            sections = scan_pagerecords_for_sections(Valid(pages_file))
      /\ "parse" \in ran =>
            LET clean == parse_document_pages(Valid(pages_file), BookId, 1)
            IN  /\ raised = clean.raised
                /\ questions = clean.questions
                /\ answers = clean.answers
                /\ IdLess(questions_out) = IdLess(clean.questions_out)
                /\ IdLess(answers_out) = IdLess(clean.answers_out)
                /\ printed = clean.printed

\* the file without the records that have no page number or no text
Skipped(ln) == ln.kind = "record" /\ (ln.pdf_page_number = 0 \/ ln.text = <<>>)
Usable(file) == SelectSeq(file, LAMBDA ln : ~Skipped(ln))

\* C21: a page record with absent or empty text, or without page number, is
\* skipped without error by the chapter scan, the section scan and the
\* question/answer extraction: the results are those of the file without
\* that record.
C21_UnusableRecordSkipped ==
   kind = "pipeline" =>
      /\ "chapters" \in ran =>
            boundaries = scan_pagerecords_for_chapters(Usable(pages_file))
      /\ "sections" \in ran =>
            sections = scan_pagerecords_for_sections(Usable(pages_file))
      /\ "parse" \in ran =>
            \E rest \in {parse_document_pages(Usable(pages_file), BookId, 1)} :
                /\ raised = rest.raised
                /\ questions = rest.questions
                /\ answers = rest.answers
                /\ IdLess(questions_out) = IdLess(rest.questions_out)
                /\ IdLess(answers_out) = IdLess(rest.answers_out)
                /\ printed = rest.printed

\* C22: on the book of four pages (chapter 1 heading on page 45, chapter 2
\* heading on page 89, practice page 90 with questions 1 and 2, solutions
\* page 91 with answers 1 (A) and 2 (B)) the chapter scan returns the
\* boundaries 1@45 and 2@89, and parse_document_pages two QuestionRecords,
\* two AnswerRecords with choices A and B, and the report 2/2/2/0/0.
C22_FourPages ==
   (kind = "pipeline" /\ pages_file = ScenarioFile) =>
      /\ "chapters" \in ran =>
            [i \in 1..Len(boundaries) |->
               <<boundaries[i].chapter_number, boundaries[i].page_number>>]
               = << <<1, 45>>, <<2, 89>> >>
      /\ "parse" \in ran =>
            /\ ~raised
            /\ [i \in 1..Len(questions_out) |-> questions_out[i].question_number]
                  = <<1, 2>>
            /\ [i \in 1..Len(answers_out) |->
                  <<answers_out[i].answer_number, answers_out[i].answer_choice>>]
                  = << <<1, "A">>, <<2, "B">> >>
            /\ \A i \in 1..Len(answers_out) :
                  answers_out[i].qa_id = questions_out[i].qa_id
            /\ printed = [questions |-> 2, answers |-> 2, matched |-> 2,
                          unmatched_questions |-> 0, unmatched_answers |-> 0]
\* both functions have run on the book of four pages
C22_Witness ==
   /\ kind = "pipeline" /\ pages_file = ScenarioFile
   /\ {"chapters", "parse"} \subseteq ran
   /\ Len(boundaries) = 2 /\ Len(answers_out) = 2

\* the position of a record in the order in which the records were built:
\* the number of the uuid4 call that drew its id
BuiltAt(rec) == rec.id.uuid4[2]
\* the question blocks whose key has an entry in the answer map
WithAnswer ==
   SelectSeq([i \in 1..Len(q_blocks) |-> i],
             LAMBDA i : QuestionKey(q_blocks[i], BookId) \in AKeys)

\* C23: one QuestionRecord is emitted per question block, in the order of
\* the blocks; an AnswerRecord is emitted only right after a QuestionRecord
\* whose key is in the answer map, and carries that record's problem_key and
\* qa_id, so no AnswerRecord exists without a QuestionRecord of its key.
C23_EmissionOrder ==
   Matched =>
      /\ Len(questions_out) = Len(q_blocks)
      /\ \A i \in 1..Len(q_blocks) :
            /\ questions_out[i].question_number = q_blocks[i].qnum
            /\ questions_out[i].question_text = q_blocks[i].raw
            /\ questions_out[i].problem_key = QuestionKey(q_blocks[i], BookId)
      /\ \A i, k \in 1..Len(questions_out) :
            i < k => BuiltAt(questions_out[i]) < BuiltAt(questions_out[k])
      /\ Len(answers_out) = Len(WithAnswer)
      /\ \A n \in 1..Len(answers_out) :
            /\ BuiltAt(answers_out[n]) = BuiltAt(questions_out[WithAnswer[n]]) + 1
            /\ answers_out[n].problem_key = questions_out[WithAnswer[n]].problem_key
            /\ answers_out[n].qa_id = questions_out[WithAnswer[n]].qa_id
\* of two question blocks the second has an answer, the first has none
C23_Witness ==
   /\ Matched
   /\ Len(questions_out) = 2 /\ Len(answers_out) = 1 /\ Len(a_blocks) = 2
   /\ WithAnswer = <<2>>
   /\ BuiltAt(answers_out[1]) = 3

(***************************************************************************)
(* Further properties of the block segmenter and of the records.           *)
(***************************************************************************)
\* C24: every item the segmenter has opened comes from a fragment that
\* starts with the stream's numbering pattern; a fragment that does not
\* start with it never opens an item, also when no item is open yet.  (The
\* fragment an item was opened from is the head of its raw text.)
C24_OpenedFromNumbered ==
   kind \in {"questions", "answers"} =>
      \A i \in 1..Len(Items) : NumberedPart(kind, Items[i].raw)

\* C25: each AnswerRecord describes the answer block that matched its key:
\* page_ids, answer number, answer choice, section titles and section labels
\* are those of that answer block, not of the question block.
C25_AnswerBlockFields ==
   Matched =>
      \A n \in 1..Len(answers_out) :
         \E a \in {LastWithKey(answers_out[n].problem_key)} :
            /\ answers_out[n].page_ids = a.page_ids
            /\ answers_out[n].answer_number = a.anum
            /\ answers_out[n].answer_choice = a.choice
            /\ answers_out[n].section_titles = {a.section_title}
            /\ answers_out[n].section_labels =
                  IF a.section_label # "" THEN {a.section_label} ELSE {}

\* C26: every QuestionRecord and AnswerRecord has its first page set to the
\* earliest page number among the pages its item spans.
C26_FirstPageSet ==
   Matched =>
      /\ \A i \in 1..Len(questions_out) :
            questions_out[i].pdf_page = Some(FirstPage(q_blocks[i]))
      /\ \A n \in 1..Len(answers_out) :
            answers_out[n].pdf_page =
               Some(FirstPage(LastWithKey(answers_out[n].problem_key)))

(***************************************************************************)
(* Properties of the page-start detectors.                                 *)
(***************************************************************************)
Detected == kind = "detect" /\ ret.op # "none"
OfChapter == ret.op = "detect_chapter_at_page_start"

\* the leading lines the call looked at, and the heading lines among them
LeadingLines == FirstLines(line.text, IF OfChapter THEN ChapterWindow ELSE SectionWindow)
HeadingLines ==
   {i \in 1..Len(LeadingLines) :
       IF OfChapter THEN ChapterLineMatches(LeadingLines[i])
       ELSE SectionLineMatches(LeadingLines[i], ret.arg)}
FirstHeading == CHOOSE i \in HeadingLines : \A h \in HeadingLines : i <= h

\* the title a heading line carries itself: the words after "Chapter N:" or
\* after the section number
OwnTitle(ln) == IF OfChapter THEN SubSeq(ln, 3, Len(ln)) ELSE Tail(ln)

\* the line after the heading, when it can serve as a title
UsableNextLine(i) ==
   /\ i + 1 <= Len(LeadingLines)
   /\ LeadingLines[i + 1] # <<>>
   /\ ~StartsWithNumberDot(LeadingLines[i + 1])
   /\ ~IsBareKeyword(LeadingLines[i + 1])

\* C27: a detected heading is returned with the title its own line carries;
\* when the line carries none, with the following non-empty line as title,
\* unless that line is a numbered sub-heading or a bare keyword, and then the
\* heading is returned with the title absent.
C27_HeadingTitle ==
   Detected /\ HeadingLines # {} =>
      LET i == FirstHeading
          own == OwnTitle(LeadingLines[i])
      IN  /\ ret.val # None
          /\ ret.val[1].title =
                IF own # <<>> THEN Some(own)
                ELSE IF UsableNextLine(i) THEN Some(LeadingLines[i + 1])
                ELSE None

\* the lines that are a section number of 1..d separators followed by a title
TitledHeadings(d) ==
   {i \in 1..Len(LeadingLines) :
       LET ln == LeadingLines[i]
       IN  /\ Len(ln) > 1
           /\ IsNum(ln[1]) /\ ln[1].p = ""
           /\ Len(ln[1].n) - 1 \in 1..d
           /\ ~IsBareKeyword(Tail(ln))}

\* C28: for every max_depth >= 1 the returned depth is the number of '.' in
\* the returned section number and is at most max_depth, and a page whose
\* leading lines hold a heading of 1..max_depth separators yields a section.
C28_DepthBound ==
   Detected /\ ~OfChapter =>
      /\ ret.val # None =>
            /\ ret.val[1].depth = Len(ret.val[1].section_num) - 1
            /\ ret.val[1].depth <= ret.arg
      /\ TitledHeadings(ret.arg) # {} => ret.val # None

(***************************************************************************)
(* Pages of an item.                                                       *)
(***************************************************************************)
\* the page on which the item was opened (pdf_pages is set when the item is
\* opened and never changed)
OpenedOn(item) == CHOOSE n \in item.pdf_pages : TRUE
PageNums(item) == {id[2] : id \in item.page_ids}
\* page' is a page of the stream whose first fragment is non-numbered
LeadsNonNumbered ==
   /\ ChunkStep
   /\ FragmentsOf(page') # <<>>
   /\ ~NumberedPart(kind, FragmentsOf(page')[1])

\* every item holds the page it was opened on; its other pages are pages of
\* the stream after that page and not after the page the next item opens on
C29_Inv ==
   kind \in {"questions", "answers"} =>
      \A k \in 1..Len(Items) :
         /\ PageId(OpenedOn(Items[k])) \in Items[k].page_ids
         /\ \A n \in PageNums(Items[k]) :
               /\ n >= OpenedOn(Items[k])
               /\ IsChunk(kind, lookup[n])
               /\ k < Len(Items) => n <= OpenedOn(Items[k + 1])
\* a page is added to an item exactly when the item is the last one opened
\* before the page and the page's first fragment is non-numbered; no other
\* item opened before the page changes
C29_Step ==
   kind \in {"questions", "answers"} =>
      \A k \in 1..Len(Items) :
         IF k = Len(Items) /\ LeadsNonNumbered
         THEN /\ Items'[k].page_ids = Items[k].page_ids \cup {page'.id}
              /\ Items'[k].raw = Items[k].raw \o <<NL>> \o FragmentsOf(page')[1]
         ELSE Items'[k] = Items[k]

Titled(file, title) == \E i \in 1..Len(file) : file[i].document_title = title
OneEntryPerTitle ==
   \A i, j \in 1..Len(log) :
      log[i].document_title = log[j].document_title => i = j
\* the call of this step was made on a title that is (is not) in the log
LogStep(op) == kind = "log" /\ ret'.op = op
C30_Step ==
   /\ (LogStep("add_entry") /\ Titled(log, ret'.arg)) => log' = log
   /\ \A op \in {"update_entry", "mark_as_converted", "delete_entry"} :
         (LogStep(op) /\ ~Titled(log, ret'.arg)) => (log' = log /\ ret'.val = FALSE)

\* C30: from the empty log, after any sequence of add_entry, update_entry,
\* mark_as_converted and delete_entry the log holds at most one entry per
\* document_title; add_entry for a title already present leaves the log
\* unchanged; update_entry, mark_as_converted and delete_entry on a title
\* not present return False and leave the log unchanged.
C30_OneEntryPerTitle == [](kind = "log" => OneEntryPerTitle) /\ [][C30_Step]_vars
\* the second and third clause alone
C30_AbsentOrPresent == [][C30_Step]_vars

=============================================================================
